---- MODULE Spec2Model ----
(***************************************************************************)
(* Model of the split-ledger record store (info_store.InfoStore) and the   *)
(* lifecycle state machine (ledger_engine.StateMachine).                   *)
(*                                                                         *)
(* Python dicts are TLA+ functions with string domains ("key in d" is      *)
(* "key \in DOMAIN d"), Python lists are sequences (Python offset i is     *)
(* position i + 1), Python None is the string value None below.            *)
(* A store is the record [disk, cache, index]; every handler is an         *)
(* operator from a store to a result [st, error, partition], and each      *)
(* action applies one whole handler.                                       *)
(***************************************************************************)
EXTENDS Integers, Sequences, FiniteSets, TLC

VARIABLES disk, cache, index, now, lastOp, lastResult, job

vars == <<disk, cache, index, now, lastOp, lastResult, job>>

(***************************************************************************)
(* Bounds of the model.                                                    *)
(***************************************************************************)
NumKeys == 2
MaxBatch == 2
MaxPatchAttempts == 3
MaxClock == 1

(***************************************************************************)
(* Program constants.                                                      *)
(***************************************************************************)
URL_NS == "urlinfos"
UPLOAD_NS == "uploadinfos"
PDF_NS == "pdfinfos"
Namespaces == <<URL_NS, UPLOAD_NS, PDF_NS>>
NamespaceSet == {URL_NS, UPLOAD_NS, PDF_NS}

REQUIRED_UPLOAD_STAGE_OBJECTS == {"download", "wayback", "archive"}

RetryLimit == 2

None == "<None>"

STATE_FETCHED == "FETCHED"
STATE_DOWNLOAD_SUCCESS == "DOWNLOAD_SUCCESS"
STATE_DOWNLOAD_FAILED == "DOWNLOAD_FAILED"
STATE_WAYBACK_UPLOADED == "WAYBACK_UPLOADED"
STATE_WAYBACK_UPLOAD_FAILED == "WAYBACK_UPLOAD_FAILED"
STATE_ARCHIVE_UPLOADED_WITH_WAYBACK_URL == "ARCHIVE_UPLOADED_WITH_WAYBACK_URL"
STATE_ARCHIVE_UPLOADED_WITHOUT_WAYBACK_URL == "ARCHIVE_UPLOADED_WITHOUT_WAYBACK_URL"
STATE_ARCHIVE_UPLOADED_WITHOUT_DOCUMENT == "ARCHIVE_UPLOADED_WITHOUT_DOCUMENT"

ALLOWED_STATES ==
    { STATE_FETCHED, STATE_DOWNLOAD_SUCCESS, STATE_DOWNLOAD_FAILED,
      STATE_WAYBACK_UPLOADED, STATE_WAYBACK_UPLOAD_FAILED,
      STATE_ARCHIVE_UPLOADED_WITH_WAYBACK_URL,
      STATE_ARCHIVE_UPLOADED_WITHOUT_WAYBACK_URL,
      STATE_ARCHIVE_UPLOADED_WITHOUT_DOCUMENT }

STAGE_DOWNLOAD == "download"
STAGE_WAYBACK == "wayback"
STAGE_ARCHIVE == "archive"
STAGE_NAMES == {STAGE_DOWNLOAD, STAGE_WAYBACK, STAGE_ARCHIVE}

ALLOWED_TRANSITIONS ==
    [s \in ALLOWED_STATES |->
        CASE s = STATE_FETCHED ->
                {STATE_FETCHED, STATE_DOWNLOAD_SUCCESS, STATE_DOWNLOAD_FAILED}
          [] s = STATE_DOWNLOAD_SUCCESS ->
                {STATE_DOWNLOAD_SUCCESS, STATE_WAYBACK_UPLOADED,
                 STATE_WAYBACK_UPLOAD_FAILED,
                 STATE_ARCHIVE_UPLOADED_WITH_WAYBACK_URL,
                 STATE_ARCHIVE_UPLOADED_WITHOUT_WAYBACK_URL}
          [] s = STATE_DOWNLOAD_FAILED ->
                {STATE_DOWNLOAD_FAILED, STATE_ARCHIVE_UPLOADED_WITHOUT_DOCUMENT}
          [] s = STATE_WAYBACK_UPLOADED ->
                {STATE_WAYBACK_UPLOADED, STATE_ARCHIVE_UPLOADED_WITH_WAYBACK_URL}
          [] s = STATE_WAYBACK_UPLOAD_FAILED ->
                {STATE_WAYBACK_UPLOAD_FAILED,
                 STATE_ARCHIVE_UPLOADED_WITHOUT_WAYBACK_URL}
          [] s = STATE_ARCHIVE_UPLOADED_WITH_WAYBACK_URL ->
                {STATE_ARCHIVE_UPLOADED_WITH_WAYBACK_URL}
          [] s = STATE_ARCHIVE_UPLOADED_WITHOUT_WAYBACK_URL ->
                {STATE_ARCHIVE_UPLOADED_WITHOUT_WAYBACK_URL}
          [] s = STATE_ARCHIVE_UPLOADED_WITHOUT_DOCUMENT ->
                {STATE_ARCHIVE_UPLOADED_WITHOUT_DOCUMENT, STATE_DOWNLOAD_SUCCESS,
                 STATE_DOWNLOAD_FAILED, STATE_ARCHIVE_UPLOADED_WITH_WAYBACK_URL,
                 STATE_ARCHIVE_UPLOADED_WITHOUT_WAYBACK_URL}]

(***************************************************************************)
(* Error kinds (the exception classes of ledger_engine) and results.       *)
(***************************************************************************)
NoError == ""
RecordNotFoundError == "RecordNotFoundError"
DuplicateUniqueCodeError == "DuplicateUniqueCodeError"
InvalidTransitionError == "InvalidTransitionError"
RetryLimitExceededError == "RetryLimitExceededError"
ImmutableFieldUpdateError == "ImmutableFieldUpdateError"

Ok(st) == [st |-> st, error |-> NoError]
Raise(st, e) == [st |-> st, error |-> e]

UpsertResult(res, operation, partition, unique_code) ==
    [st |-> res.st, error |-> res.error,
     operation |-> IF res.error = NoError THEN operation ELSE "",
     partition |-> IF res.error = NoError THEN partition ELSE "",
     unique_code |-> IF res.error = NoError THEN unique_code ELSE ""]

(***************************************************************************)
(* Texts: record keys, dates, timestamps.                                  *)
(***************************************************************************)
Keys == {ToString(i) : i \in 1..NumKeys}

KeyNum(k) == CHOOSE i \in 1..NumKeys : ToString(i) = k

\* Python's str comparison of two record keys ("1" < "2" < ... for one digit)
KeyLeq(a, b) ==
    IF a = "" THEN TRUE ELSE IF b = "" THEN FALSE ELSE KeyNum(a) <= KeyNum(b)

\* The date texts of the model, in the order of Python's str comparison
DateTextOrder == <<"", "0999-01-01", "2023-05-01", "2024-03-01", "2024-06-01", "2024-13-01">>

DateTexts == {DateTextOrder[i] : i \in 1..Len(DateTextOrder)}

TextRank(text) == CHOOSE i \in 1..Len(DateTextOrder) : DateTextOrder[i] = text

\* a > b on two date texts
TextGreater(a, b) == TextRank(a) > TextRank(b)

\* datetime.strptime(text, "%Y-%m-%d") on the date texts of the model:
\* <<year, month, day>> for a text that parses, <<>> for one that does not
parse_iso_date(date_text) ==
    CASE date_text = "0999-01-01" -> <<999, 1, 1>>
      [] date_text = "2023-05-01" -> <<2023, 5, 1>>
      [] date_text = "2024-03-01" -> <<2024, 3, 1>>
      [] date_text = "2024-06-01" -> <<2024, 6, 1>>
      [] OTHER -> <<>>

partition_for_gr_date(gr_date) ==
    LET parsed == parse_iso_date(gr_date)
    IN IF parsed = <<>> THEN "unknown" ELSE ToString(parsed[1])

Partitions == {partition_for_gr_date(d) : d \in DateTexts}

normalize_text(value) == IF value = None THEN "" ELSE value

normalize_run_type(run_type) ==
    IF run_type \notin {"daily", "monthly"} THEN "daily" ELSE run_type

utc_now_text(clock) == "T" \o ToString(clock)

\* datetime.now(timezone.utc).date().isoformat()
TodayText == "2024-06-01"

normalize_crawl_date(crawl_date) ==
    IF parse_iso_date(crawl_date) # <<>> THEN crawl_date ELSE TodayText

(***************************************************************************)
(* Dict helpers.                                                           *)
(***************************************************************************)
Get(d, key) == IF key \in DOMAIN d THEN d[key] ELSE None

\* dict.update for the keys of p: p's value wins
Merge(d, p) ==
    [f \in DOMAIN d \cup DOMAIN p |-> IF f \in DOMAIN p THEN p[f] ELSE d[f]]

\* _to_int(d.get(key), default) for values that are ints or absent
to_int(d, key, default) == IF key \in DOMAIN d THEN d[key] ELSE default

(***************************************************************************)
(* Partition files, cache and index.                                       *)
(***************************************************************************)
EmptyStore ==
    [disk |-> [ns \in NamespaceSet |-> <<>>],
     cache |-> [ns \in NamespaceSet |-> <<>>],
     index |-> [ns \in NamespaceSet |-> <<>>]]

row_key(row) ==
    IF "record_key" \in DOMAIN row /\ row["record_key"] \notin {None, ""}
    THEN row["record_key"]
    ELSE IF "unique_code" \in DOMAIN row /\ row["unique_code"] \notin {None, ""}
         THEN row["unique_code"]
         ELSE ""

\* the rows _read_partition returns: the cached list, else the file, else []
partition_rows(st, ns, partition) ==
    IF partition \in DOMAIN st.cache[ns] THEN st.cache[ns][partition]
    ELSE IF partition \in DOMAIN st.disk[ns] THEN st.disk[ns][partition]
    ELSE <<>>

\* the store after _read_partition: the rows read are cached
read_partition(st, ns, partition) ==
    IF partition \in DOMAIN st.cache[ns] THEN st
    ELSE [st EXCEPT !.cache[ns] = (partition :> partition_rows(st, ns, partition)) @@ @]

write_partition(st, ns, partition, rows) ==
    [st EXCEPT !.disk[ns] = (partition :> rows) @@ @,
               !.cache[ns] = (partition :> rows) @@ @]

\* the cached list mutated in place, nothing written
stage_rows(st, ns, partition, rows) ==
    [st EXCEPT !.cache[ns] = (partition :> rows) @@ @]

\* list.sort(key=_row_key): stable insertion by record key
RECURSIVE sort_insert(_, _)
sort_insert(sorted, row) ==
    IF sorted = <<>> THEN <<row>>
    ELSE IF KeyLeq(row_key(sorted[Len(sorted)]), row_key(row))
         THEN Append(sorted, row)
         ELSE Append(sort_insert(SubSeq(sorted, 1, Len(sorted) - 1), row),
                     sorted[Len(sorted)])

RECURSIVE sort_rows(_)
sort_rows(rows) ==
    IF rows = <<>> THEN <<>>
    ELSE sort_insert(sort_rows(SubSeq(rows, 1, Len(rows) - 1)), rows[Len(rows)])

\* [item for item in rows if _row_key(item) != record_key]
RECURSIVE rows_without(_, _)
rows_without(rows, record_key) ==
    IF rows = <<>> THEN <<>>
    ELSE LET rest == rows_without(Tail(rows), record_key)
         IN IF row_key(Head(rows)) # record_key THEN <<Head(rows)>> \o rest ELSE rest

RecordLocation(partition, i) == [partition |-> partition, index |-> i]

\* _namespace_sort_key: digit stems first, most recent year first, "unknown" last
namespace_sort_key(stem) ==
    IF \E d \in DateTexts : parse_iso_date(d) # <<>> /\ ToString(parse_iso_date(d)[1]) = stem
    THEN <<0, 0 - (CHOOSE y \in {parse_iso_date(d)[1] : d \in {t \in DateTexts : parse_iso_date(t) # <<>>}} :
                        ToString(y) = stem)>>
    ELSE IF stem = "unknown" THEN <<2, 0>> ELSE <<1, 0>>

SortKeyLess(a, b) ==
    LET ka == namespace_sort_key(a)
        kb == namespace_sort_key(b)
    IN ka[1] < kb[1] \/ (ka[1] = kb[1] /\ ka[2] < kb[2])

RECURSIVE sorted_partitions(_)
sorted_partitions(S) ==
    IF S = {} THEN <<>>
    ELSE LET first == CHOOSE p \in S : \A q \in S \ {p} : SortKeyLess(p, q)
         IN <<first>> \o sorted_partitions(S \ {first})

\* the loop over enumerate(rows) of refresh_index (any_partition = TRUE: a key
\* already indexed anywhere is a duplicate) and of _reindex_partition
\* (any_partition = FALSE: only a key indexed in another partition is)
RECURSIVE index_rows(_, _, _, _, _)
index_rows(ns_index, rows, i, partition, any_partition) ==
    IF i > Len(rows) THEN [index |-> ns_index, error |-> NoError]
    ELSE LET key == row_key(rows[i])
         IN IF key = "" THEN index_rows(ns_index, rows, i + 1, partition, any_partition)
            ELSE IF key \in DOMAIN ns_index
                    /\ (any_partition \/ ns_index[key].partition # partition)
                 THEN [index |-> ns_index, error |-> DuplicateUniqueCodeError]
                 ELSE index_rows((key :> RecordLocation(partition, i)) @@ ns_index,
                                 rows, i + 1, partition, any_partition)

\* the entries of an index that point outside a partition
entries_outside(ns_index, partition) ==
    [k \in {k \in DOMAIN ns_index : ns_index[k].partition # partition} |-> ns_index[k]]

\* _reindex_partition on a store that has the partition cached
reindex_cached(st, ns, partition) ==
    LET got == index_rows(entries_outside(st.index[ns], partition),
                          partition_rows(st, ns, partition), 1, partition, FALSE)
    IN [st |-> [st EXCEPT !.index[ns] = got.index], error |-> got.error]

\* a rewrite that leaves the index as it was
reindex_partition_skipped(st, ns, partition) == Ok(read_partition(st, ns, partition))

reindex_partition(st, ns, partition) ==
    reindex_cached(read_partition(st, ns, partition), ns, partition)

\* refresh_index that takes a key for a duplicate only when it is indexed in
\* another partition
refresh_file_other_partition(st, ns, partition) ==
    LET got == index_rows(st.index[ns], partition_rows(st, ns, partition), 1,
                          partition, FALSE)
    IN [st |-> [st EXCEPT !.index[ns] = got.index], error |-> got.error]

\* refresh_index, one file of one namespace: its rows are read and indexed
refresh_file(st, ns, partition) ==
    LET got == index_rows(st.index[ns], partition_rows(st, ns, partition), 1,
                          partition, TRUE)
    IN [st |-> [st EXCEPT !.index[ns] = got.index], error |-> got.error]

\* refresh_index for one namespace: files in _namespace_sort_key order
RECURSIVE refresh_namespace(_, _, _)
refresh_namespace(res, ns, files) ==
    IF files = <<>> \/ res.error # NoError THEN res
    ELSE refresh_namespace(
             refresh_file(read_partition(res.st, ns, Head(files)), ns, Head(files)),
             ns, Tail(files))

RECURSIVE refresh_from(_, _)
refresh_from(res, i) ==
    IF i > Len(Namespaces) \/ res.error # NoError THEN res
    ELSE refresh_from(
             refresh_namespace(
                 Ok([res.st EXCEPT !.cache[Namespaces[i]] = <<>>,
                                   !.index[Namespaces[i]] = <<>>]),
                 Namespaces[i],
                 sorted_partitions(DOMAIN res.st.disk[Namespaces[i]])),
             i + 1)

refresh_index(st) == refresh_from(Ok(st), 1)

\* _is_partition_allowed: the filter is <<>> for None, <<set>> for a set
is_partition_allowed(partition_filter, partition) ==
    partition_filter = <<>> \/ partition \in partition_filter[1]

\* the partition files refresh_index does not skip under a filter
allowed_files(files, partition_filter) ==
    [ns \in NamespaceSet |->
        [partition \in {p \in DOMAIN files[ns] :
                            is_partition_allowed(partition_filter, p)} |->
            files[ns][partition]]]

\* InfoStore(ledger_dir, partitions=...): a store object opened on the
\* files; __init__ calls refresh_index, which reads and indexes the files of
\* the allowed partitions only
open_store(files, partition_filter) ==
    [st |-> [refresh_index([EmptyStore EXCEPT
                               !.disk = allowed_files(files, partition_filter)]).st
                EXCEPT !.disk = files],
     error |-> refresh_index([EmptyStore EXCEPT
                                 !.disk = allowed_files(files, partition_filter)]).error]

\* list_partitions that leaves out the files without rows
list_partitions_nonempty(st) ==
    sorted_partitions({partition \in DOMAIN st.disk[URL_NS] :
                          st.disk[URL_NS][partition] # <<>>})

\* list_partitions(), no partition filter: the stems of the identity files
list_partitions(st) == sorted_partitions(DOMAIN st.disk[URL_NS])

\* _find_row: a copy of the indexed row; an optional row is a sequence,
\* <<>> for None and <<row>> for a row
find_row(st, ns, record_key) ==
    IF record_key \notin DOMAIN st.index[ns] THEN <<>>
    ELSE <<partition_rows(st, ns, st.index[ns][record_key].partition)
               [st.index[ns][record_key].index]>>

\* the store after _find_row (the partition it read is cached)
find_row_store(st, ns, record_key) ==
    IF record_key \notin DOMAIN st.index[ns] THEN st
    ELSE read_partition(st, ns, st.index[ns][record_key].partition)

exists(st, unique_code) == normalize_text(unique_code) \in DOMAIN st.index[URL_NS]

\* _upsert_namespace_row, lines 415-419 and 423-427: the rows of the
\* partition are replaced, sorted, written and reindexed
put_rows(st, ns, partition, rows) ==
    reindex_partition(write_partition(st, ns, partition, sort_rows(rows)), ns, partition)

\* the move without line 431: the row stays in the partition it leaves
source_rows_kept(rows, record_key) == rows

\* line 431: the rows left in the partition the row moves out of
source_rows_after_move(rows, record_key) == rows_without(rows, record_key)

\* lines 430-433: the row leaves its partition
remove_row(st, ns, record_key, source) ==
    reindex_partition(
        write_partition(st, ns, source,
                        source_rows_after_move(partition_rows(st, ns, source), record_key)),
        ns, source)

\* the move that writes the target partition with the moved row alone
add_row_alone(res, ns, record_key, partition, row) ==
    IF res.error # NoError THEN res
    ELSE put_rows(read_partition(res.st, ns, partition), ns, partition, <<row>>)

\* lines 435-440: the row enters the target partition
add_row(res, ns, record_key, partition, row) ==
    IF res.error # NoError THEN res
    ELSE put_rows(read_partition(res.st, ns, partition), ns, partition,
                  Append(rows_without(partition_rows(res.st, ns, partition), record_key),
                         row))

upsert_namespace_row(st, ns, record_key, partition, row) ==
    IF record_key \notin DOMAIN st.index[ns]
    THEN put_rows(read_partition(st, ns, partition), ns, partition,
                  Append(partition_rows(st, ns, partition), row))
    ELSE IF st.index[ns][record_key].partition = partition
    THEN put_rows(read_partition(st, ns, partition), ns, partition,
                  [partition_rows(st, ns, partition)
                      EXCEPT ![st.index[ns][record_key].index] = row])
    ELSE add_row(remove_row(read_partition(st, ns, st.index[ns][record_key].partition),
                            ns, record_key, st.index[ns][record_key].partition),
                 ns, record_key, partition, row)

(***************************************************************************)
(* Rows of the three namespaces and the patches applied to them.           *)
(***************************************************************************)
default_url_row(record_key, now_text, crawl_date, run_type) ==
    [record_key |-> record_key,
     unique_code |-> record_key,
     title |-> "",
     department_name |-> "",
     department_code |-> "unknown",
     gr_date |-> "",
     source_url |-> "",
     first_seen_crawl_date |-> crawl_date,
     last_seen_crawl_date |-> crawl_date,
     first_seen_run_type |-> run_type,
     created_at_utc |-> now_text,
     updated_at_utc |-> now_text]

default_upload_row(record_key, now_text) ==
    [record_key |-> record_key,
     state |-> "FETCHED",
     download |-> [status |-> "not_attempted", error |-> "", attempts |-> 0],
     wayback |-> [status |-> "not_attempted", url |-> "", content_url |-> "",
                  archive_time |-> "", archive_sha1 |-> "", archive_length |-> None,
                  archive_mimetype |-> "", archive_status_code |-> "",
                  error |-> "", attempts |-> 0],
     archive |-> [status |-> "not_attempted", identifier |-> "", url |-> "",
                  error |-> "", attempts |-> 0],
     hf |-> [status |-> "not_attempted", path |-> None, hash |-> None,
             backend |-> None, commit_hash |-> None, error |-> None,
             synced_at_utc |-> None, attempts |-> 0],
     created_at_utc |-> now_text,
     updated_at_utc |-> now_text]

UrlMutable ==
    {"title", "department_name", "department_code", "gr_date", "source_url",
     "last_seen_crawl_date"}

UrlImmutable ==
    {"record_key", "unique_code", "created_at_utc", "first_seen_crawl_date",
     "first_seen_run_type"}

\* _apply_url_patch that applies the immutable fields like the mutable ones
apply_url_patch_any(target, incoming, is_insert) ==
    [row |-> [f \in DOMAIN target \cup (DOMAIN incoming \cap (UrlMutable \cup UrlImmutable)) |->
                 IF f \in DOMAIN incoming \cap (UrlMutable \cup UrlImmutable)
                    /\ incoming[f] # None
                 THEN incoming[f]
                 ELSE Get(target, f)],
     error |-> NoError]

\* _apply_url_patch: the patched row, or ImmutableFieldUpdateError
apply_url_patch(target, incoming, is_insert) ==
    IF ~is_insert
       /\ \E key \in DOMAIN incoming \cap UrlImmutable :
              Get(target, key) \notin {None, "", incoming[key]}
    THEN [row |-> target, error |-> ImmutableFieldUpdateError]
    ELSE [row |-> [f \in DOMAIN target \cup (DOMAIN incoming \cap UrlMutable) |->
                      IF f \in DOMAIN incoming \cap UrlMutable /\ incoming[f] # None
                      THEN incoming[f]
                      ELSE Get(target, f)],
          error |-> NoError]

upload_attempt(upload_row, stage) ==
    IF stage \in DOMAIN upload_row THEN to_int(upload_row[stage], "attempts", 0) ELSE 0

UploadPatchKeys ==
    {"state", "download", "wayback", "archive", "hf", "lfs_path", "attempt_counts"}

has_upload_patch(record) == (DOMAIN record \cap UploadPatchKeys) # {}

StageObj(row, stage) == IF stage \in DOMAIN row THEN row[stage] ELSE <<>>

\* _apply_upload_patch, its four steps in the order of the code
patch_state(target, incoming) ==
    IF "state" \in DOMAIN incoming /\ incoming["state"] # None
    THEN Merge(target, [state |-> IF normalize_text(incoming["state"]) # ""
                                  THEN normalize_text(incoming["state"])
                                  ELSE IF "state" \in DOMAIN target
                                       THEN target["state"] ELSE "FETCHED"])
    ELSE target

patch_attempt_counts(target, incoming) ==
    IF "attempt_counts" \in DOMAIN incoming
    THEN LET attempts == incoming["attempt_counts"]
             hf_value == IF "hf" \in DOMAIN attempts THEN attempts["hf"]
                         ELSE IF "lfs" \in DOMAIN attempts THEN attempts["lfs"]
                         ELSE to_int(StageObj(target, "hf"), "attempts", 0)
         IN [f \in DOMAIN target \cup REQUIRED_UPLOAD_STAGE_OBJECTS \cup {"hf"} |->
                IF f \in REQUIRED_UPLOAD_STAGE_OBJECTS
                THEN Merge(StageObj(target, f),
                           [attempts |-> to_int(attempts, f,
                                                to_int(StageObj(target, f), "attempts", 0))])
                ELSE IF f = "hf"
                     THEN Merge(StageObj(target, "hf"), [attempts |-> hf_value])
                     ELSE target[f]]
    ELSE target

patch_stage_objects(target, incoming) ==
    LET patched == DOMAIN incoming \cap {"download", "wayback", "archive", "hf"}
    IN [f \in DOMAIN target \cup patched |->
           IF f \in patched THEN Merge(StageObj(target, f), incoming[f]) ELSE target[f]]

patch_lfs_path(target, incoming, now_text) ==
    IF "lfs_path" \in DOMAIN incoming
    THEN LET normalized == normalize_text(incoming["lfs_path"])
             path == IF normalized # "" THEN normalized ELSE None
         IN Merge(target,
                  [hf |-> Merge(StageObj(target, "hf"),
                                [path |-> path,
                                 status |-> IF path # None THEN "success"
                                            ELSE "not_attempted",
                                 synced_at_utc |-> IF path # None THEN now_text
                                                   ELSE None])])
    ELSE target

apply_upload_patch(target, incoming, now_text) ==
    patch_lfs_path(
        patch_stage_objects(
            patch_attempt_counts(patch_state(target, incoming), incoming),
            incoming),
        incoming, now_text)

PdfInfoKeys ==
    {"file_size", "page_count", "pages_with_images", "has_any_page_image",
     "total_font_count", "fonts", "unresolved_word_count", "language"}

\* _pdf_row_from_pdf_info for a pdf_info that is a dict
pdf_row_from_pdf_info(record_key, pdf_info, now_text, created_at) ==
    LET base == [record_key |-> record_key, status |-> "not_attempted",
                 created_at_utc |-> created_at]
        status == IF normalize_text(Get(pdf_info, "status")) # ""
                  THEN normalize_text(Get(pdf_info, "status")) ELSE "not_attempted"
    IN IF status = "not_attempted" THEN base
       ELSE [f \in DOMAIN base \cup {"error"} \cup PdfInfoKeys |->
                IF f = "status" THEN status
                ELSE IF f \in DOMAIN base THEN base[f]
                ELSE Get(pdf_info, f)]

\* _merge_record: the unified record of find()
merge_record(record_key, url_row, upload_row_or_none, pdf_row_or_none) ==
    LET upload_row ==
            IF upload_row_or_none = <<>>
            THEN default_upload_row(record_key, normalize_text(Get(url_row, "updated_at_utc")))
            ELSE upload_row_or_none[1]
        pdf_row == IF pdf_row_or_none = <<>> THEN <<>> ELSE pdf_row_or_none[1]
        state == IF normalize_text(Get(upload_row, "state")) # ""
                 THEN normalize_text(Get(upload_row, "state")) ELSE "FETCHED"
        hf == StageObj(upload_row, "hf")
        download0 == StageObj(upload_row, "download")
        download ==
            Merge([path |-> IF Get(hf, "path") # None THEN Get(hf, "path") ELSE "",
                   hash |-> IF Get(hf, "hash") # None THEN Get(hf, "hash") ELSE "",
                   size |-> None],
                  download0)
        wayback == StageObj(upload_row, "wayback")
        archive == StageObj(upload_row, "archive")
        pdf_status == IF pdf_row_or_none = <<>> THEN "not_attempted"
                      ELSE IF normalize_text(Get(pdf_row, "status")) # ""
                           THEN normalize_text(Get(pdf_row, "status"))
                           ELSE "not_attempted"
        pdf_info == IF pdf_status = "not_attempted" THEN [status |-> "not_attempted"]
                    ELSE [f \in {"status", "error"} \cup PdfInfoKeys |->
                             IF f = "status" THEN pdf_status ELSE Get(pdf_row, f)]
    IN Merge(url_row,
             [record_key |-> record_key,
              unique_code |-> IF normalize_text(Get(url_row, "unique_code")) # ""
                              THEN normalize_text(Get(url_row, "unique_code"))
                              ELSE record_key,
              state |-> state,
              download |-> download,
              wayback |-> wayback,
              archive |-> archive,
              hf |-> hf,
              lfs_path |-> IF normalize_text(Get(hf, "path")) # "" THEN Get(hf, "path")
                           ELSE None,
              attempt_counts |-> [download |-> to_int(download, "attempts", 0),
                                  wayback |-> to_int(wayback, "attempts", 0),
                                  archive |-> to_int(archive, "attempts", 0)],
              pdf_info |-> pdf_info])

find(st, unique_code) ==
    LET record_key == normalize_text(unique_code)
    IN IF record_key = "" THEN <<>>
       ELSE IF find_row(st, URL_NS, record_key) = <<>> THEN <<>>
       ELSE <<merge_record(record_key,
                           find_row(st, URL_NS, record_key)[1],
                           find_row(st, UPLOAD_NS, record_key),
                           find_row(st, PDF_NS, record_key))>>

\* sorted(self._index[URL_NS].keys())
RECURSIVE sorted_keys(_)
sorted_keys(S) ==
    IF S = {} THEN <<>>
    ELSE LET first == CHOOSE k \in S : \A other \in S : KeyLeq(k, other)
         IN <<first>> \o sorted_keys(S \ {first})

\* the records of the keys in the order given, a key find() returns None
\* for left out
RECURSIVE found_records(_, _)
found_records(st, keys) ==
    IF keys = <<>> THEN <<>>
    ELSE find(st, Head(keys)) \o found_records(st, Tail(keys))

\* iter_records that returns the records of the 2024 file in the order of its rows
iter_records_file_order(st) ==
    found_records(st, [i \in 1..Len(partition_rows(st, URL_NS, "2024")) |->
                          row_key(partition_rows(st, URL_NS, "2024")[i])])

iter_records(st) == found_records(st, sorted_keys(DOMAIN st.index[URL_NS]))

\* find() that writes the default pipeline row it synthesizes
find_store_persisting(st, unique_code) ==
    IF normalize_text(unique_code) \notin DOMAIN st.index[URL_NS]
       \/ normalize_text(unique_code) \in DOMAIN st.index[UPLOAD_NS]
    THEN st
    ELSE upsert_namespace_row(
             st, UPLOAD_NS, normalize_text(unique_code),
             st.index[URL_NS][normalize_text(unique_code)].partition,
             default_upload_row(normalize_text(unique_code), "")).st

\* the store after find(): the partitions it read are cached
find_store(st, unique_code) ==
    LET record_key == normalize_text(unique_code)
    IN IF record_key = "" \/ record_key \notin DOMAIN st.index[URL_NS] THEN st
       ELSE find_row_store(
                find_row_store(find_row_store(st, URL_NS, record_key),
                               UPLOAD_NS, record_key),
                PDF_NS, record_key)

\* the store after iter_records(): the partitions of every record are cached
RECURSIVE find_all_store(_, _)
find_all_store(st, keys) ==
    IF keys = <<>> THEN st
    ELSE find_all_store(find_store(st, Head(keys)), Tail(keys))

iter_records_store(st) == find_all_store(st, sorted_keys(DOMAIN st.index[URL_NS]))

patch_key(record) ==
    normalize_text(IF Get(record, "record_key") \notin {None, ""}
                   THEN Get(record, "record_key")
                   ELSE Get(record, "unique_code"))

(***************************************************************************)
(* Lifecycle state machine (ledger_engine.StateMachine).                   *)
(***************************************************************************)
\* validate_transition: the error it raises, NoError when it passes
validate_transition(current_state, next_state) ==
    IF current_state \notin ALLOWED_STATES \/ next_state \notin ALLOWED_STATES
    THEN InvalidTransitionError
    ELSE IF next_state \notin ALLOWED_TRANSITIONS[current_state]
         THEN InvalidTransitionError
         ELSE NoError

\* next_state_for_stage that looks at has_wayback_url before has_document
next_state_wayback_first(current_state, stage, success, has_wayback_url, has_document) ==
    IF current_state \notin ALLOWED_STATES \/ stage \notin STAGE_NAMES
    THEN [state |-> current_state, error |-> InvalidTransitionError]
    ELSE [error |-> NoError,
          state |->
            CASE stage = STAGE_DOWNLOAD ->
                    IF success THEN STATE_DOWNLOAD_SUCCESS ELSE STATE_DOWNLOAD_FAILED
              [] stage = STAGE_WAYBACK ->
                    IF success THEN STATE_WAYBACK_UPLOADED
                    ELSE STATE_WAYBACK_UPLOAD_FAILED
              [] stage = STAGE_ARCHIVE ->
                    IF ~success THEN current_state
                    ELSE IF has_wayback_url = <<TRUE>>
                         THEN STATE_ARCHIVE_UPLOADED_WITH_WAYBACK_URL
                    ELSE IF ~has_document THEN STATE_ARCHIVE_UPLOADED_WITHOUT_DOCUMENT
                         ELSE STATE_ARCHIVE_UPLOADED_WITHOUT_WAYBACK_URL]

\* next_state_for_stage: has_wayback_url is <<>> for None, else <<bool>>
next_state_for_stage(current_state, stage, success, has_wayback_url, has_document) ==
    IF current_state \notin ALLOWED_STATES \/ stage \notin STAGE_NAMES
    THEN [state |-> current_state, error |-> InvalidTransitionError]
    ELSE [error |-> NoError,
          state |->
            CASE stage = STAGE_DOWNLOAD ->
                    IF success THEN STATE_DOWNLOAD_SUCCESS ELSE STATE_DOWNLOAD_FAILED
              [] stage = STAGE_WAYBACK ->
                    IF success THEN STATE_WAYBACK_UPLOADED
                    ELSE STATE_WAYBACK_UPLOAD_FAILED
              [] stage = STAGE_ARCHIVE ->
                    IF ~success THEN current_state
                    ELSE IF ~has_document THEN STATE_ARCHIVE_UPLOADED_WITHOUT_DOCUMENT
                    ELSE IF has_wayback_url = <<TRUE>>
                         THEN STATE_ARCHIVE_UPLOADED_WITH_WAYBACK_URL
                         ELSE STATE_ARCHIVE_UPLOADED_WITHOUT_WAYBACK_URL]

(***************************************************************************)
(* InfoStore.apply_stage_result.                                           *)
(***************************************************************************)
\* the default error text of a failed stage
default_stage_error(stage) ==
    CASE stage = "download" -> "download_failed"
      [] stage = "wayback" -> "wayback_upload_failed"
      [] stage = "archive" -> "archive_upload_failed"

stage_error_text(stage, metadata, error) ==
    IF error # "" THEN error
    ELSE IF normalize_text(Get(metadata, "error")) # ""
         THEN normalize_text(Get(metadata, "error"))
         ELSE default_stage_error(stage)

WaybackMetadataKeys ==
    {"url", "content_url", "archive_time", "archive_sha1", "archive_length",
     "archive_mimetype", "archive_status_code"}

\* lines 835-842: the hf sub-object after a download success
hf_after_download(hf_obj, metadata, now_text) ==
    Merge(
        IF "path" \in DOMAIN metadata
        THEN Merge(hf_obj,
                   [path |-> IF normalize_text(metadata["path"]) # ""
                             THEN normalize_text(metadata["path"]) ELSE None,
                    status |-> IF normalize_text(metadata["path"]) # "" THEN "success"
                               ELSE IF "status" \in DOMAIN hf_obj THEN hf_obj["status"]
                               ELSE "not_attempted",
                    synced_at_utc |-> IF normalize_text(metadata["path"]) # ""
                                      THEN now_text
                                      ELSE Get(hf_obj, "synced_at_utc")])
        ELSE hf_obj,
        IF "hash" \in DOMAIN metadata
        THEN [hash |-> IF normalize_text(metadata["hash"]) # ""
                       THEN normalize_text(metadata["hash"]) ELSE None]
        ELSE <<>>)

\* a stage sub-object after a success: status, error, and the metadata keys copied
stage_succeeded(stage_obj, metadata, keys) ==
    [f \in DOMAIN stage_obj \cup {"status", "error"} \cup (DOMAIN metadata \cap keys) |->
        IF f \in DOMAIN metadata \cap keys THEN metadata[f]
        ELSE IF f = "status" THEN "success"
        ELSE IF f = "error" THEN ""
        ELSE stage_obj[f]]

\* lines 829-873: the success/failure field updates of one stage, on the row
\* whose stage attempt counter is already incremented
stage_fields(upload_row, stage, success, metadata, error, now_text) ==
    IF ~success
    THEN Merge(upload_row,
               (stage :> Merge(upload_row[stage],
                               [status |-> "failed",
                                error |-> stage_error_text(stage, metadata, error)])))
    ELSE CASE stage = "download" ->
                Merge(upload_row,
                      (stage :> stage_succeeded(upload_row[stage], metadata, {}))
                      @@ [hf |-> hf_after_download(StageObj(upload_row, "hf"), metadata,
                                                   now_text)])
          [] stage = "wayback" ->
                Merge(upload_row,
                      (stage :> stage_succeeded(upload_row[stage], metadata,
                                                WaybackMetadataKeys)))
          [] stage = "archive" ->
                Merge(upload_row,
                      (stage :> stage_succeeded(upload_row[stage], metadata,
                                                {"identifier", "url"})))

\* the retry check with ">" in place of ">="
retry_exhausted_above_limit(current_attempts) == current_attempts > RetryLimit

\* line 825: the stage has no attempt left
retry_exhausted(current_attempts) == current_attempts >= RetryLimit

\* the increment applied to the counter of every stage
increment_attempts_every_stage(upload_row, stage) ==
    Merge(upload_row,
          [other \in STAGE_NAMES |->
              Merge(StageObj(upload_row, other),
                    [attempts |-> upload_attempt(upload_row, other) + 1])])

\* line 827
increment_attempts(upload_row, stage) ==
    Merge(upload_row,
          (stage :> Merge(StageObj(upload_row, stage),
                          [attempts |-> upload_attempt(upload_row, stage) + 1])))

\* lines 877-880: has_wayback_url, computed from the row when not given
wayback_flag(upload_row, stage, has_wayback_url) ==
    IF stage = "archive" /\ has_wayback_url = <<>>
    THEN <<normalize_text(Get(StageObj(upload_row, "wayback"), "url")) # "">>
    ELSE has_wayback_url

\* line 882
current_state_of(upload_row) ==
    IF normalize_text(Get(upload_row, "state")) # ""
    THEN normalize_text(Get(upload_row, "state")) ELSE "FETCHED"

\* lines 890-893: validate_transition and the assignment of next_state are
\* commented out; the row is persisted with the state it had
persisted_row(upload_row, next_state) == upload_row

apply_stage_persist(st, record_key, upload_row, next) ==
    IF next.error # NoError THEN UpsertResult(Raise(st, next.error), "", "", "")
    ELSE UpsertResult(
             upsert_namespace_row(st, UPLOAD_NS, record_key,
                                  st.index[URL_NS][record_key].partition,
                                  persisted_row(upload_row, next.state)),
             "updated", st.index[URL_NS][record_key].partition, record_key)

\* lines 877-889
apply_stage_next(st, record_key, stage, success, has_document, has_wayback_url, upload_row) ==
    apply_stage_persist(st, record_key, upload_row,
                        next_state_for_stage(current_state_of(upload_row), stage, success,
                                             wayback_flag(upload_row, stage, has_wayback_url),
                                             has_document))

\* lines 820-875
apply_stage_attempt(st, now_text, record_key, stage, success, metadata, error, has_document, has_wayback_url, upload_row) ==
    IF retry_exhausted(upload_attempt(upload_row, stage))
    THEN UpsertResult(Raise(st, RetryLimitExceededError), "", "", "")
    ELSE IF stage \notin {"download", "wayback", "archive"}
    THEN UpsertResult(Raise(st, InvalidTransitionError), "", "", "")
    ELSE apply_stage_next(st, record_key, stage, success, has_document, has_wayback_url,
                          stage_fields(increment_attempts(upload_row, stage), stage,
                                       success, metadata, error, now_text))

\* lines 815-818: the stored pipeline row, or a default one
load_upload_row(st, record_key, existing, now_text) ==
    IF find_row(st, UPLOAD_NS, record_key) = <<>>
    THEN default_upload_row(record_key,
                            IF normalize_text(Get(existing, "created_at_utc")) # ""
                            THEN normalize_text(Get(existing, "created_at_utc"))
                            ELSE now_text)
    ELSE find_row(st, UPLOAD_NS, record_key)[1]

apply_stage_result(st, clock, unique_code, stage, success, metadata, error, has_document, has_wayback_url) ==
    IF find(st, normalize_text(unique_code)) = <<>>
    THEN UpsertResult(Raise(find_store(st, normalize_text(unique_code)),
                            RecordNotFoundError), "", "", "")
    ELSE apply_stage_attempt(
             find_store(st, normalize_text(unique_code)), utc_now_text(clock),
             normalize_text(unique_code), stage, success, metadata, error,
             has_document, has_wayback_url,
             load_upload_row(st, normalize_text(unique_code),
                             find(st, normalize_text(unique_code))[1],
                             utc_now_text(clock)))

(***************************************************************************)
(* InfoStore.insert.                                                       *)
(***************************************************************************)
\* lines 556-563 and 748-755
insert_pdf(res, now_text, record, record_key, url_row, partition) ==
    IF res.error = NoError /\ "pdf_info" \in DOMAIN record
    THEN UpsertResult(
             upsert_namespace_row(res.st, PDF_NS, record_key, partition,
                                  pdf_row_from_pdf_info(record_key, record["pdf_info"],
                                                        now_text,
                                                        Get(url_row, "created_at_utc"))),
             "inserted", partition, record_key)
    ELSE UpsertResult(res, "inserted", partition, record_key)

\* insert that writes the default pipeline row for every patch
insert_upload_always(res, now_text, record, record_key, url_row, partition) ==
    IF res.error = NoError
    THEN insert_pdf(
             upsert_namespace_row(res.st, UPLOAD_NS, record_key, partition,
                                  apply_upload_patch(
                                      default_upload_row(record_key, now_text),
                                      record, now_text)),
             now_text, record, record_key, url_row, partition)
    ELSE insert_pdf(res, now_text, record, record_key, url_row, partition)

\* lines 551-554 and 742-746
insert_upload(res, now_text, record, record_key, url_row, partition) ==
    IF res.error = NoError /\ has_upload_patch(record)
    THEN insert_pdf(
             upsert_namespace_row(res.st, UPLOAD_NS, record_key, partition,
                                  apply_upload_patch(
                                      default_upload_row(record_key, now_text),
                                      record, now_text)),
             now_text, record, record_key, url_row, partition)
    ELSE insert_pdf(res, now_text, record, record_key, url_row, partition)

\* lines 548-549 and 739-740
insert_url(st, now_text, record, record_key, url_row) ==
    insert_upload(
        upsert_namespace_row(st, URL_NS, record_key,
                             partition_for_gr_date(Get(url_row, "gr_date")), url_row),
        now_text, record, record_key, url_row,
        partition_for_gr_date(Get(url_row, "gr_date")))

\* lines 546-563 (insert) and 737-755 (upsert of an absent key)
insert_rows(st, clock, record, record_key, run_type, crawl_date) ==
    insert_url(st, utc_now_text(clock), record, record_key,
               apply_url_patch(
                   default_url_row(record_key, utc_now_text(clock),
                                   normalize_crawl_date(crawl_date),
                                   normalize_run_type(run_type)),
                   record, TRUE).row)

\* insert without the check of lines 539-540
insert_unchecked(st, clock, record, run_type, crawl_date) ==
    insert_rows(st, clock, record, patch_key(record), run_type, crawl_date)

insert(st, clock, record, run_type, crawl_date) ==
    IF patch_key(record) = "" THEN UpsertResult(Raise(st, "ValueError"), "", "", "")
    ELSE IF patch_key(record) \in DOMAIN st.index[URL_NS]
    THEN UpsertResult(Raise(st, DuplicateUniqueCodeError), "", "", "")
    ELSE insert_rows(st, clock, record, patch_key(record), run_type, crawl_date)

(***************************************************************************)
(* InfoStore.update_many and update.                                       *)
(***************************************************************************)
\* the monthly rule without the comparison of the dates
advance_last_seen_always(url_row, run_type, crawl_date) ==
    IF run_type = "monthly" /\ crawl_date # ""
    THEN Merge(url_row, [last_seen_crawl_date |-> crawl_date])
    ELSE url_row

\* the monthly-run rule for last_seen_crawl_date (lines 614-617 and 761-764)
advance_last_seen(url_row, run_type, crawl_date) ==
    IF run_type = "monthly"
       /\ crawl_date # ""
       /\ (normalize_text(Get(url_row, "last_seen_crawl_date")) = ""
           \/ TextGreater(crawl_date,
                          normalize_text(Get(url_row, "last_seen_crawl_date"))))
    THEN Merge(url_row, [last_seen_crawl_date |-> crawl_date])
    ELSE url_row

\* an iteration of the loop of update_many ends: raised, or done
update_failed(st, e) == [st |-> st, error |-> e, partition |-> ""]

update_done(st, partition) == [st |-> st, error |-> NoError, partition |-> partition]

\* lines 653-657 and 669-674: a new row is appended to the cached list and
\* indexed at its offset; nothing is sorted or written
stage_new_row(st, ns, record_key, partition, row) ==
    [stage_rows(st, ns, partition, Append(partition_rows(st, ns, partition), row))
        EXCEPT !.index[ns] =
            (record_key :> RecordLocation(partition,
                                          Len(partition_rows(st, ns, partition)) + 1)) @@ @]

\* a row of the cached list is replaced in place
stage_row_at(st, ns, partition, i, row) ==
    stage_rows(st, ns, partition, [partition_rows(st, ns, partition) EXCEPT ![i] = row])

pdf_created_at(url_row, now_text) ==
    IF normalize_text(Get(url_row, "created_at_utc")) # ""
    THEN normalize_text(Get(url_row, "created_at_utc")) ELSE now_text

\* lines 681-697: the pdf row of the key exists, in the target partition
update_pdf_existing(st, now_text, record, record_key, partition, url_row, pdf_loc) ==
    IF pdf_loc.index > Len(partition_rows(st, PDF_NS, partition))
    THEN update_failed(st, RecordNotFoundError)
    ELSE IF row_key(partition_rows(st, PDF_NS, partition)[pdf_loc.index]) # record_key
    THEN update_failed(st, RecordNotFoundError)
    ELSE update_done(
             stage_row_at(st, PDF_NS, partition, pdf_loc.index,
                 pdf_row_from_pdf_info(
                     record_key, record["pdf_info"], now_text,
                     IF normalize_text(Get(partition_rows(st, PDF_NS, partition)[pdf_loc.index],
                                           "created_at_utc")) # ""
                     THEN normalize_text(Get(partition_rows(st, PDF_NS, partition)[pdf_loc.index],
                                             "created_at_utc"))
                     ELSE pdf_created_at(url_row, now_text))),
             partition)

\* lines 664-706
update_pdf(st, now_text, record, record_key, partition, url_row) ==
    IF record_key \in DOMAIN st.index[PDF_NS]
       /\ st.index[PDF_NS][record_key].partition # partition
    THEN update_failed(st, InvalidTransitionError)
    ELSE IF "pdf_info" \notin DOMAIN record THEN update_done(st, partition)
    ELSE IF record_key \notin DOMAIN st.index[PDF_NS]
    THEN update_done(
             stage_new_row(read_partition(st, PDF_NS, partition), PDF_NS, record_key,
                           partition,
                           pdf_row_from_pdf_info(record_key, record["pdf_info"], now_text,
                                                 pdf_created_at(url_row, now_text))),
             partition)
    ELSE update_pdf_existing(read_partition(st, PDF_NS, partition), now_text, record,
                             record_key, partition, url_row, st.index[PDF_NS][record_key])

\* lines 638-644 and 658-660: the pipeline row of the key exists
update_upload_existing(st, now_text, record, record_key, partition, url_row, upload_loc) ==
    IF upload_loc.index > Len(partition_rows(st, UPLOAD_NS, partition))
    THEN update_failed(st, RecordNotFoundError)
    ELSE IF row_key(partition_rows(st, UPLOAD_NS, partition)[upload_loc.index]) # record_key
    THEN update_failed(st, RecordNotFoundError)
    ELSE update_pdf(
             stage_row_at(st, UPLOAD_NS, partition, upload_loc.index,
                          apply_upload_patch(
                              partition_rows(st, UPLOAD_NS, partition)[upload_loc.index],
                              record, now_text)),
             now_text, record, record_key, partition, url_row)

\* lines 628-662
update_upload(st, now_text, record, record_key, partition, url_row) ==
    IF record_key \in DOMAIN st.index[UPLOAD_NS]
    THEN IF st.index[UPLOAD_NS][record_key].partition # partition
         THEN update_failed(st, InvalidTransitionError)
         ELSE update_upload_existing(read_partition(st, UPLOAD_NS, partition), now_text,
                                     record, record_key, partition, url_row,
                                     st.index[UPLOAD_NS][record_key])
    ELSE IF has_upload_patch(record)
    THEN update_pdf(
             stage_new_row(read_partition(st, UPLOAD_NS, partition), UPLOAD_NS, record_key,
                           partition,
                           apply_upload_patch(default_upload_row(record_key, now_text),
                                              record, now_text)),
             now_text, record, record_key, partition, url_row)
    ELSE update_pdf(st, now_text, record, record_key, partition, url_row)

\* update_many that stages the identity row where it is, whatever its date
update_url_in_place(st, now_text, record, record_key, url_loc, url_row) ==
    update_upload(stage_row_at(st, URL_NS, url_loc.partition, url_loc.index, url_row),
                  now_text, record, record_key, url_loc.partition, url_row)

\* lines 618-626: no repartition; the patched identity row is staged
update_url_staged(st, now_text, record, record_key, url_loc, url_row) ==
    IF partition_for_gr_date(Get(url_row, "gr_date")) # url_loc.partition
    THEN update_failed(st, InvalidTransitionError)
    ELSE update_upload(stage_row_at(st, URL_NS, url_loc.partition, url_loc.index, url_row),
                       now_text, record, record_key, url_loc.partition, url_row)

\* lines 605-617
update_url(st, now_text, record, record_key, run_type, crawl_date, url_loc) ==
    IF url_loc.index > Len(partition_rows(st, URL_NS, url_loc.partition))
    THEN update_failed(st, RecordNotFoundError)
    ELSE IF row_key(partition_rows(st, URL_NS, url_loc.partition)[url_loc.index]) # record_key
    THEN update_failed(st, RecordNotFoundError)
    ELSE IF apply_url_patch(partition_rows(st, URL_NS, url_loc.partition)[url_loc.index],
                            record, FALSE).error # NoError
    THEN update_failed(st, ImmutableFieldUpdateError)
    ELSE update_url_staged(
             st, now_text, record, record_key, url_loc,
             advance_last_seen(
                 apply_url_patch(partition_rows(st, URL_NS, url_loc.partition)[url_loc.index],
                                 record, FALSE).row,
                 run_type, crawl_date))

\* update_many that creates the record of a key the index lacks
update_one_or_insert(st, clock, record, run_type, crawl_date) ==
    IF patch_key(record) = "" THEN update_failed(st, "ValueError")
    ELSE IF patch_key(record) \notin DOMAIN st.index[URL_NS]
    THEN [st |-> insert_rows(st, clock, record, patch_key(record), run_type, crawl_date).st,
          error |-> NoError,
          partition |-> insert_rows(st, clock, record, patch_key(record), run_type,
                                    crawl_date).partition]
    ELSE update_url(read_partition(st, URL_NS, st.index[URL_NS][patch_key(record)].partition),
                    utc_now_text(clock), record, patch_key(record),
                    normalize_run_type(run_type), normalize_crawl_date(crawl_date),
                    st.index[URL_NS][patch_key(record)])

\* one iteration of the loop of update_many (lines 597-708) on the staged store
update_one(st, clock, record, run_type, crawl_date) ==
    IF patch_key(record) = "" THEN update_failed(st, "ValueError")
    ELSE IF patch_key(record) \notin DOMAIN st.index[URL_NS]
    THEN update_failed(st, RecordNotFoundError)
    ELSE update_url(read_partition(st, URL_NS, st.index[URL_NS][patch_key(record)].partition),
                    utc_now_text(clock), record, patch_key(record),
                    normalize_run_type(run_type), normalize_crawl_date(crawl_date),
                    st.index[URL_NS][patch_key(record)])

\* touched_partitions of one iteration that raised nothing, from the store
\* the iteration started on
touched_by(st, record, partition) ==
    {<<URL_NS, partition>>}
    \cup (IF has_upload_patch(record) \/ patch_key(record) \in DOMAIN st.index[UPLOAD_NS]
          THEN {<<UPLOAD_NS, partition>>} ELSE {})
    \cup (IF "pdf_info" \in DOMAIN record THEN {<<PDF_NS, partition>>} ELSE {})

\* the state of the loop after one iteration: touched_partitions grows, the
\* result of the record is appended (here: its partition is kept)
update_step(res, record, one) ==
    [st |-> one.st, error |-> one.error, partition |-> one.partition,
     touched |-> IF one.error # NoError THEN res.touched
                 ELSE res.touched \cup touched_by(res.st, record, one.partition)]

\* the loop over records (lines 596-708), from record i on
RECURSIVE update_loop(_, _, _, _, _, _)
update_loop(res, clock, records, i, run_type, crawl_date) ==
    IF i > Len(records) \/ res.error # NoError THEN res
    ELSE update_loop(
             update_step(res, records[i],
                         update_one(res.st, clock, records[i], run_type, crawl_date)),
             clock, records, i + 1, run_type, crawl_date)

\* lines 710-712: every touched partition is written as it is cached
write_touched(st, touched) ==
    [st EXCEPT !.disk =
        [ns \in NamespaceSet |->
            [p \in DOMAIN st.disk[ns] \cup {t[2] : t \in {u \in touched : u[1] = ns}} |->
                IF <<ns, p>> \in touched THEN partition_rows(st, ns, p)
                ELSE st.disk[ns][p]]]]

\* lines 713-716: the staged mutations are discarded, the exception re-raised
update_rollback(refreshed, e) ==
    UpsertResult(Raise(refreshed.st,
                       IF refreshed.error # NoError THEN refreshed.error ELSE e),
                 "", "", "")

\* update_many that writes the touched partitions before it re-raises
update_finish_partial(res) ==
    IF res.error # NoError
    THEN update_rollback(refresh_index(write_touched(res.st, res.touched)), res.error)
    ELSE UpsertResult(Ok(write_touched(res.st, res.touched)), "updated", res.partition, "")

\* update_many that re-raises without refresh_index()
update_finish_staged(res) ==
    IF res.error # NoError THEN update_rollback(Ok(res.st), res.error)
    ELSE UpsertResult(Ok(write_touched(res.st, res.touched)), "updated", res.partition, "")

update_finish(res) ==
    IF res.error # NoError THEN update_rollback(refresh_index(res.st), res.error)
    ELSE UpsertResult(Ok(write_touched(res.st, res.touched)), "updated", res.partition, "")

update_many(st, clock, records, run_type, crawl_date) ==
    IF records = <<>> THEN UpsertResult(Ok(st), "", "", "")
    ELSE update_finish(
             update_loop([st |-> st, error |-> NoError, partition |-> "", touched |-> {}],
                         clock, records, 1, run_type, crawl_date))

update(st, clock, record, run_type, crawl_date) ==
    update_many(st, clock, <<record>>, run_type, crawl_date)

(***************************************************************************)
(* InfoStore.upsert.                                                       *)
(***************************************************************************)
\* line 778
upsert_pdf_created_at(current_pdf, url_row, now_text) ==
    IF current_pdf # <<>> /\ normalize_text(Get(current_pdf[1], "created_at_utc")) # ""
    THEN normalize_text(Get(current_pdf[1], "created_at_utc"))
    ELSE pdf_created_at(url_row, now_text)

\* lines 776-793
upsert_pdf(res, now_text, record, record_key, url_row, partition) ==
    IF res.error # NoError THEN UpsertResult(res, "", "", "")
    ELSE IF "pdf_info" \in DOMAIN record
    THEN UpsertResult(
             upsert_namespace_row(
                 find_row_store(res.st, PDF_NS, record_key), PDF_NS, record_key, partition,
                 pdf_row_from_pdf_info(
                     record_key, record["pdf_info"], now_text,
                     upsert_pdf_created_at(find_row(res.st, PDF_NS, record_key), url_row,
                                           now_text))),
             "updated", partition, record_key)
    ELSE IF find_row(res.st, PDF_NS, record_key) # <<>>
    THEN UpsertResult(
             upsert_namespace_row(find_row_store(res.st, PDF_NS, record_key), PDF_NS,
                                  record_key, partition,
                                  find_row(res.st, PDF_NS, record_key)[1]),
             "updated", partition, record_key)
    ELSE UpsertResult(res, "updated", partition, record_key)

\* line 770 without "or upload_row is not None"
upsert_writes_upload_patch_only(record, upload_row) == has_upload_patch(record)

\* line 770: the pipeline row is written when the patch has pipeline fields
\* or the key has a pipeline row
upsert_writes_upload(record, upload_row) ==
    has_upload_patch(record) \/ upload_row # <<>>

\* lines 768-774
upsert_upload(res, now_text, record, record_key, url_row, partition) ==
    IF res.error # NoError THEN UpsertResult(res, "", "", "")
    ELSE IF upsert_writes_upload(record, find_row(res.st, UPLOAD_NS, record_key))
    THEN upsert_pdf(
             upsert_namespace_row(
                 find_row_store(res.st, UPLOAD_NS, record_key), UPLOAD_NS, record_key,
                 partition,
                 apply_upload_patch(
                     IF find_row(res.st, UPLOAD_NS, record_key) = <<>>
                     THEN default_upload_row(record_key, now_text)
                     ELSE find_row(res.st, UPLOAD_NS, record_key)[1],
                     record, now_text)),
             now_text, record, record_key, url_row, partition)
    ELSE upsert_pdf(res, now_text, record, record_key, url_row, partition)

\* lines 765-766
upsert_url(st, now_text, record, record_key, url_row) ==
    upsert_upload(
        upsert_namespace_row(st, URL_NS, record_key,
                             partition_for_gr_date(Get(url_row, "gr_date")), url_row),
        now_text, record, record_key, url_row,
        partition_for_gr_date(Get(url_row, "gr_date")))

\* upsert that rebuilds the identity row of a stored key as insert does
upsert_existing_fresh(st, now_text, record, record_key, run_type, crawl_date, patched) ==
    upsert_url(st, now_text, record, record_key,
               apply_url_patch(default_url_row(record_key, now_text, crawl_date, run_type),
                               record, TRUE).row)

\* lines 759-764
upsert_existing(st, now_text, record, record_key, run_type, crawl_date, patched) ==
    IF patched.error # NoError
    THEN UpsertResult(Raise(st, patched.error), "", "", "")
    ELSE upsert_url(st, now_text, record, record_key,
                    advance_last_seen(patched.row, run_type, crawl_date))

upsert(st, clock, record, run_type, crawl_date) ==
    IF patch_key(record) = "" THEN UpsertResult(Raise(st, "ValueError"), "", "", "")
    ELSE IF find_row(st, URL_NS, patch_key(record)) = <<>>
    THEN insert_rows(st, clock, record, patch_key(record), run_type, crawl_date)
    ELSE upsert_existing(
             find_row_store(st, URL_NS, patch_key(record)), utc_now_text(clock), record,
             patch_key(record), normalize_run_type(run_type),
             normalize_crawl_date(crawl_date),
             apply_url_patch(find_row(st, URL_NS, patch_key(record))[1], record, FALSE))

(***************************************************************************)
(* The store as a state machine: each action is one whole call of a        *)
(* handler on the store; lastOp and lastResult record the call and what    *)
(* it returned or raised.                                                  *)
(***************************************************************************)
Store == [disk |-> disk, cache |-> cache, index |-> index]

\* the partition of the identity row of a key before a call, "" when absent
PartitionBefore(key) ==
    IF key \in DOMAIN index[URL_NS] THEN index[URL_NS][key].partition ELSE ""

StageCall(key, stage, success, has_document, has_wayback_url) ==
    [op |-> "apply_stage_result", key |-> key, stage |-> stage, success |-> success,
     has_document |-> has_document, has_wayback_url |-> has_wayback_url,
     partition_before |-> PartitionBefore(key), run_type |-> "", crawl_date |-> "",
     records |-> <<>>]

Call(op, key) ==
    [op |-> op, key |-> key, stage |-> "", success |-> FALSE, has_document |-> TRUE,
     has_wayback_url |-> <<>>, partition_before |-> PartitionBefore(key),
     run_type |-> "", crawl_date |-> "", records |-> <<>>]

\* a call of insert, update or upsert, recorded with its run type and crawl date
RunCall(op, key, run_type, crawl_date) ==
    [Call(op, key) EXCEPT !.run_type = normalize_run_type(run_type),
                          !.crawl_date = normalize_crawl_date(crawl_date)]

\* a call of update_many recorded with the batch it was given
BatchCall(records, run_type, crawl_date) ==
    [RunCall("update_many", patch_key(records[Len(records)]), run_type, crawl_date)
        EXCEPT !.records = records]

Commit(res, call) ==
    /\ disk' = res.st.disk
    /\ cache' = res.st.cache
    /\ index' = res.st.index
    /\ lastOp' = call
    /\ lastResult' = [error |-> res.error, partition |-> res.partition]
    /\ UNCHANGED <<now, job>>

\* the report of a stage worker run that has looked at no record yet
EmptyReport ==
    [processed |-> 0, success |-> 0, failed |-> 0, skipped |-> 0,
     service_failures |-> 0, stopped_early |-> FALSE]

\* the last iteration of a worker loop: the code it was about, what the
\* remote service did, the error the try block raised, and the number of
\* apply_stage_result calls made
NoStep == [code |-> "", outcome |-> "", raised |-> NoError, applies |-> 0]

\* no stage worker has been started
NoJob ==
    [status |-> "idle", stage |-> "", codes |-> <<>>, pos |-> 1,
     service_failure_limit |-> 0, consecutive_service_failures |-> 0,
     report |-> EmptyReport, last |-> NoStep]

Init ==
    /\ disk = EmptyStore.disk
    /\ cache = EmptyStore.cache
    /\ index = EmptyStore.index
    /\ now = 0
    /\ lastOp = [op |-> "init", key |-> "", stage |-> "", success |-> FALSE,
                 has_document |-> TRUE, has_wayback_url |-> <<>>,
                 partition_before |-> "", run_type |-> "", crawl_date |-> "",
                 records |-> <<>>]
    /\ lastResult = [error |-> NoError, partition |-> ""]
    /\ job = NoJob

Insert(record, run_type, crawl_date) ==
    Commit(insert(Store, now, record, run_type, crawl_date),
           RunCall("insert", patch_key(record), run_type, crawl_date))

Update(record, run_type, crawl_date) ==
    Commit(update(Store, now, record, run_type, crawl_date),
           RunCall("update", patch_key(record), run_type, crawl_date))

UpdateMany(records, run_type, crawl_date) ==
    Commit(update_many(Store, now, records, run_type, crawl_date),
           Call("update_many", patch_key(records[Len(records)])))

Upsert(record, run_type, crawl_date) ==
    Commit(upsert(Store, now, record, run_type, crawl_date),
           RunCall("upsert", patch_key(record), run_type, crawl_date))

ApplyStageResult(unique_code, stage, success, metadata, error, has_document, has_wayback_url) ==
    Commit(apply_stage_result(Store, now, unique_code, stage, success, metadata, error,
                              has_document, has_wayback_url),
           StageCall(normalize_text(unique_code), stage, success, has_document,
                     has_wayback_url))

\* update_many, the call recorded with its batch
UpdateManyNoted(records, run_type, crawl_date) ==
    Commit(update_many(Store, now, records, run_type, crawl_date),
           BatchCall(records, run_type, crawl_date))

\* find() returns a record or None and raises nothing
Find(unique_code) ==
    Commit([st |-> find_store(Store, unique_code), error |-> NoError, partition |-> ""],
           Call("find", normalize_text(unique_code)))

\* time passes between two calls: _utc_now_text() reads a later clock
Tick ==
    /\ now < MaxClock
    /\ now' = now + 1
    /\ UNCHANGED <<disk, cache, index, lastOp, lastResult, job>>

(***************************************************************************)
(* Views of the stored files.                                              *)
(***************************************************************************)
\* the places <<partition, position>> of the rows of a key in the files of a
\* namespace
RowPlaces(ns, key) ==
    {pl \in UNION {{<<p, i>> : i \in 1..Len(disk[ns][p])} : p \in DOMAIN disk[ns]} :
        row_key(disk[ns][pl[1]][pl[2]]) = key}

HasRow(ns, key) == RowPlaces(ns, key) # {}

\* the partitions holding a row of the key
RowPartitions(ns, key) == {pl[1] : pl \in RowPlaces(ns, key)}

\* the stored row of a key that has one
RowOf(ns, key) ==
    disk[ns][(CHOOSE pl \in RowPlaces(ns, key) : TRUE)[1]]
            [(CHOOSE pl \in RowPlaces(ns, key) : TRUE)[2]]

StoredState(key) == RowOf(UPLOAD_NS, key)["state"]

StoredAttempts(key, stage) == upload_attempt(RowOf(UPLOAD_NS, key), stage)

(***************************************************************************)
(* SpecStage: one record and its stage results.  The record is inserted    *)
(* plain or with a lifecycle state in its patch (as gr_site_job's          *)
(* record_patch does), then download, wayback and archive results are      *)
(* applied to it.                                                          *)
(***************************************************************************)
StageKey == ToString(1)

StageDate == "2024-03-01"

\* the states a record is inserted in, besides the default FETCHED
StageStates ==
    {STATE_DOWNLOAD_SUCCESS, STATE_DOWNLOAD_FAILED,
     STATE_ARCHIVE_UPLOADED_WITH_WAYBACK_URL, STATE_ARCHIVE_UPLOADED_WITHOUT_DOCUMENT}

StageInsertPatches ==
    {[record_key |-> StageKey, gr_date |-> StageDate]}
    \cup {[record_key |-> StageKey, gr_date |-> StageDate, state |-> s] : s \in StageStates}

StageMetadata(stage) ==
    CASE stage = STAGE_DOWNLOAD -> {[path |-> "p.pdf", hash |-> "h"]}
      [] stage = STAGE_WAYBACK -> {[url |-> "w"]}
      [] stage = STAGE_ARCHIVE -> {[identifier |-> "id", url |-> "a"]}

\* <<has_document, has_wayback_url>> as the workers pass them
StageFlags(stage) ==
    IF stage = STAGE_ARCHIVE
    THEN {<<FALSE, <<>>>>, <<TRUE, <<>>>>, <<TRUE, <<TRUE>>>>}
    ELSE {<<TRUE, <<>>>>}

StageInsert ==
    \E record \in StageInsertPatches : Insert(record, "daily", "")

StageApply ==
    \E stage \in STAGE_NAMES, success \in BOOLEAN :
        \E metadata \in StageMetadata(stage), flags \in StageFlags(stage) :
            ApplyStageResult(StageKey, stage, success, metadata, "", flags[1], flags[2])

NextStage == StageInsert \/ StageApply

SpecStage == Init /\ [][NextStage]_vars

(***************************************************************************)
(* SpecPatch: one record, patches that carry pipeline fields (a state, an  *)
(* attempt_counts object, a download sub-object) through update and        *)
(* upsert, and download results.                                           *)
(***************************************************************************)
PatchStates == ALLOWED_STATES \cup {"BOGUS"}

PipelinePatches ==
    {[record_key |-> StageKey, state |-> s] : s \in PatchStates}
    \cup {[record_key |-> StageKey, attempt_counts |-> [download |-> n]] :
              n \in 0..MaxPatchAttempts}
    \cup {[record_key |-> StageKey, download |-> [attempts |-> n]] :
              n \in 0..MaxPatchAttempts}

PatchInsert == Insert([record_key |-> StageKey, gr_date |-> StageDate], "daily", "")

PatchUpdate == \E record \in PipelinePatches : Update(record, "daily", "")

PatchUpsert == \E record \in PipelinePatches : Upsert(record, "daily", "")

PatchApply ==
    \E success \in BOOLEAN :
        ApplyStageResult(StageKey, STAGE_DOWNLOAD, success, <<>>, "", TRUE, <<>>)

NextPatch == PatchInsert \/ PatchUpdate \/ PatchUpsert \/ PatchApply

SpecPatch == Init /\ [][NextPatch]_vars

(***************************************************************************)
(* Spec: NumKeys records over two partition years, every handler.          *)
(***************************************************************************)
GrDates == {"2023-05-01", "2024-03-01"}

PdfInfo == [status |-> "success", page_count |-> 1]

InsertPatches ==
    UNION {{[record_key |-> k, gr_date |-> d] : d \in GrDates}
           \cup {[record_key |-> k, gr_date |-> "2024-03-01", state |-> STATE_FETCHED]} :
           k \in Keys}

UpdatePatches ==
    UNION {{[record_key |-> k, state |-> STATE_FETCHED],
            [record_key |-> k, pdf_info |-> PdfInfo],
            [record_key |-> k, gr_date |-> "2023-05-01"]} : k \in Keys}

UpsertPatches ==
    UNION {{[record_key |-> k, gr_date |-> d] : d \in GrDates}
           \cup {[record_key |-> k, gr_date |-> "2024-03-01", pdf_info |-> PdfInfo]} :
           k \in Keys}

BatchPatches ==
    UNION {{[record_key |-> k, state |-> STATE_FETCHED],
            [record_key |-> k, pdf_info |-> PdfInfo]} : k \in Keys}

Batches == UNION {[1..n -> BatchPatches] : n \in 1..MaxBatch}

DoInsert == \E record \in InsertPatches : Insert(record, "daily", "")

DoUpdate == \E record \in UpdatePatches : Update(record, "daily", "")

DoUpdateMany == \E records \in Batches : UpdateMany(records, "daily", "")

DoUpsert == \E record \in UpsertPatches : Upsert(record, "daily", "")

DoApplyStageResult ==
    \E k \in Keys :
        ApplyStageResult(k, STAGE_DOWNLOAD, FALSE, <<>>, "", TRUE, <<>>)

Next == DoInsert \/ DoUpdate \/ DoUpdateMany \/ DoUpsert \/ DoApplyStageResult

Spec == Init /\ [][Next]_vars

(***************************************************************************)
(* The calls on the identity row of one record: dates that parse, do not   *)
(* parse or are empty, daily and monthly runs, patches of immutable        *)
(* fields, lookups, and a clock that advances.                             *)
(***************************************************************************)
IdentityKey == ToString(1)

IdentityDates == {"", "0999-01-01", "2024-03-01", "2024-13-01"}

\* <<run_type, crawl_date>> of the calls; "" is a call without a crawl date
InsertRuns == {<<"daily", "2024-03-01">>, <<"monthly", "2024-03-01">>}

PatchRuns == {<<"daily", "2024-03-01">>, <<"monthly", "2023-05-01">>, <<"monthly", "">>}

IdentityInserts == {[record_key |-> IdentityKey, gr_date |-> d] : d \in IdentityDates}

IdentityPatches ==
    {[record_key |-> IdentityKey, gr_date |-> d] : d \in IdentityDates \ {""}}
    \cup {[record_key |-> IdentityKey, first_seen_run_type |-> "monthly"],
          [record_key |-> IdentityKey, last_seen_crawl_date |-> "2023-05-01"],
          [unique_code |-> IdentityKey]}

IdentityInsert ==
    \E record \in IdentityInserts, run \in InsertRuns : Insert(record, run[1], run[2])

IdentityUpdate ==
    \E record \in IdentityPatches, run \in PatchRuns : Update(record, run[1], run[2])

IdentityUpsert ==
    \E record \in IdentityPatches, run \in PatchRuns : Upsert(record, run[1], run[2])

IdentityFind == \E unique_code \in Keys : Find(unique_code)

NextIdentity == IdentityInsert \/ IdentityUpdate \/ IdentityUpsert \/ IdentityFind \/ Tick

SpecIdentity == Init /\ [][NextIdentity]_vars

(***************************************************************************)
(* SpecBatch: batches of update_many on two records of one year: patches   *)
(* of the identity, pipeline and extraction rows, a patch that changes the *)
(* year, a patch of an immutable field, and patches of a key that may be   *)
(* absent.                                                                 *)
(***************************************************************************)
NotedDate == "2024-03-01"

NotedInserts == {[record_key |-> k, gr_date |-> NotedDate] : k \in Keys}

NotedPatches ==
    {[record_key |-> ToString(1), title |-> "t"],
     [record_key |-> ToString(1), pdf_info |-> PdfInfo],
     [record_key |-> ToString(1), state |-> STATE_FETCHED],
     [record_key |-> ToString(1), gr_date |-> "2023-05-01"],
     [record_key |-> ToString(1), created_at_utc |-> "X"],
     [record_key |-> ToString(NumKeys), title |-> "t"]}

NotedBatches ==
    UNION {[1..n -> NotedPatches] : n \in 1..MaxBatch}

BatchInsert == \E record \in NotedInserts : Insert(record, "daily", NotedDate)

BatchUpdateMany == \E records \in NotedBatches : UpdateManyNoted(records, "daily", NotedDate)

BatchFind == \E unique_code \in Keys : Find(unique_code)

NextBatch == BatchInsert \/ BatchUpdateMany \/ BatchFind

SpecBatch == Init /\ [][NextBatch]_vars

(***************************************************************************)
(* SpecFiles: partition files laid down by earlier processes, in any       *)
(* order and with repeated keys, and a store opened on them.               *)
(***************************************************************************)
FiledNamespaces == {URL_NS, UPLOAD_NS}

FiledPartitions(ns) == IF ns = URL_NS THEN {"2023", "2024", "unknown"} ELSE {"2024"}

FiledRow(ns, key) ==
    IF ns = URL_NS THEN default_url_row(key, utc_now_text(0), "2024-03-01", "daily")
    ELSE default_upload_row(key, utc_now_text(0))

\* the row lists a file may hold: none, one or two rows, keys in any order
FiledRows(ns) ==
    {<<>>} \cup {<<FiledRow(ns, k)>> : k \in Keys}
    \cup (IF ns = URL_NS
          THEN {<<FiledRow(ns, a), FiledRow(ns, b)>> : a \in Keys, b \in Keys}
          ELSE {})

\* a file found in the ledger directory when the store is opened
PlaceFile(ns, partition, rows) ==
    /\ lastOp.op = "init"
    /\ partition \notin DOMAIN disk[ns]
    /\ disk' = [disk EXCEPT ![ns] = (partition :> rows) @@ @]
    /\ UNCHANGED <<cache, index, now, lastOp, lastResult, job>>

\* refresh_index(), as __init__ calls it
RefreshIndex ==
    Commit([st |-> refresh_index(Store).st, error |-> refresh_index(Store).error,
            partition |-> ""],
           Call("refresh_index", ""))

\* iter_records() on the opened store
IterRecords ==
    /\ lastOp.op # "init"
    /\ lastResult.error = NoError
    /\ Commit([st |-> iter_records_store(Store), error |-> NoError, partition |-> ""],
              Call("iter_records", ""))

\* list_partitions() on the opened store
ListPartitions ==
    /\ lastOp.op # "init"
    /\ lastResult.error = NoError
    /\ Commit([st |-> Store, error |-> NoError, partition |-> ""],
              Call("list_partitions", ""))

FilesPlace ==
    \E ns \in FiledNamespaces :
        \E partition \in FiledPartitions(ns), rows \in FiledRows(ns) :
            PlaceFile(ns, partition, rows)

NextFiles == FilesPlace \/ RefreshIndex \/ IterRecords \/ ListPartitions

SpecFiles == Init /\ [][NextFiles]_vars

(***************************************************************************)
(* SpecWorker: the stage workers download_pdf_job.run_selected,            *)
(* archive_job.run_selected and wayback_job.run_wayback_job on a ledger of *)
(* two records. A worker is started once; one action is one iteration of   *)
(* its for loop, and what the remote service does in that iteration is     *)
(* drawn by the action. dry_run is off and max_records is 0.               *)
(***************************************************************************)
MaxServiceFailureLimit == 2

\* service_failure_limit as the entry points pass it: max(1, args.service_failure_limit)
ServiceFailureLimits == 1..MaxServiceFailureLimit

\* the records of the ledger: plain, without a source url, with a state no
\* table knows, with no attempt left in any stage, and with a downloaded
\* document
WorkerInserts ==
    UNION {{[record_key |-> key, gr_date |-> StageDate, source_url |-> "u"],
            [record_key |-> key, gr_date |-> StageDate],
            [record_key |-> key, gr_date |-> StageDate, source_url |-> "u",
             state |-> "BOGUS"],
            [record_key |-> key, gr_date |-> StageDate, source_url |-> "u",
             attempt_counts |-> [download |-> RetryLimit, wayback |-> RetryLimit,
                                 archive |-> RetryLimit]],
            [record_key |-> key, gr_date |-> StageDate, source_url |-> "u",
             download |-> [status |-> "success", path |-> "p.pdf"]]} : key \in Keys}

\* the code lists run_selected is called with
SelectedCodes == {<<"1", "2">>, <<"2", "2", "1">>}

\* what the remote call of one iteration does: the file is already there
\* (download), the downloaded file is gone (archive), the service answers
\* with a success, a failure, a failure that is a service failure, or the
\* call raises
Outcomes(stage) ==
    {"ok", "failed", "service_failure", "exception"}
    \cup (IF stage = STAGE_DOWNLOAD THEN {"exists"} ELSE {})
    \cup (IF stage = STAGE_ARCHIVE THEN {"file_missing"} ELSE {})

\* _dedupe_keep_order
RECURSIVE dedupe_keep_order(_, _)
dedupe_keep_order(values, seen) ==
    IF values = <<>> THEN <<>>
    ELSE IF normalize_text(Head(values)) = "" \/ normalize_text(Head(values)) \in seen
    THEN dedupe_keep_order(Tail(values), seen)
    ELSE <<normalize_text(Head(values))>>
         \o dedupe_keep_order(Tail(values), seen \cup {normalize_text(Head(values))})

\* job_utils.filter_stage_records without code filter and lookback: the
\* check of allowed_states is commented out in the code
RECURSIVE stage_candidates(_, _, _)
stage_candidates(records, stage, max_attempts) ==
    IF records = <<>> THEN <<>>
    ELSE IF normalize_text(Get(Head(records), "unique_code")) = ""
            \/ to_int(Get(Head(records), "attempt_counts"), stage, 0) >= max_attempts
    THEN stage_candidates(Tail(records), stage, max_attempts)
    ELSE <<Get(Head(records), "unique_code")>>
         \o stage_candidates(Tail(records), stage, max_attempts)

filter_stage_records(st, stage, max_attempts) ==
    stage_candidates(iter_records(st), stage, max_attempts)

\* report.<field> += 1
Counted(j, field) == [j EXCEPT !.report[field] = @ + 1]

\* consecutive_service_failures = 0
Reset(j) == [j EXCEPT !.consecutive_service_failures = 0]

\* consecutive_service_failures += 1
Bumped(j) == [j EXCEPT !.consecutive_service_failures = @ + 1]

Noted(j, code, outcome, raised, applies) ==
    [j EXCEPT !.last = [code |-> code, outcome |-> outcome, raised |-> raised,
                        applies |-> applies]]

\* the for loop takes the next code, or ends and the run returns its report
continue_loop(j) ==
    [j EXCEPT !.pos = @ + 1,
              !.status = IF j.pos + 1 > Len(j.codes) THEN "returned" ELSE "running"]

\* the limit the check after the try block compares with: the download
\* worker takes the configured one, the other two max(1, configured)
effective_limit(stage, limit) ==
    IF stage = STAGE_DOWNLOAD THEN limit ELSE IF limit < 1 THEN 1 ELSE limit

\* the check after the try block with ">" in place of ">="
stop_check_above_limit(j, limit) ==
    IF j.consecutive_service_failures > limit
    THEN [j EXCEPT !.report.stopped_early = TRUE, !.status = "returned"]
    ELSE continue_loop(j)

\* the check after the try block: stopped_early and break, or the next code
stop_check(j, limit) ==
    IF j.consecutive_service_failures >= limit
    THEN [j EXCEPT !.report.stopped_early = TRUE, !.status = "returned"]
    ELSE continue_loop(j)

\* except RetryLimitExceededError counted as a failure
retry_limit_failed(j) == Bumped(Counted(Counted(j, "failed"), "service_failures"))

\* except RetryLimitExceededError
retry_limit_skipped(j) == Counted(j, "skipped")

\* except InvalidTransitionError, which only the download worker has
invalid_transition_skipped(j) == Reset(Counted(j, "skipped"))

\* except Exception: the counters
exception_counted(j) == Bumped(Counted(Counted(j, "failed"), "service_failures"))

\* except Exception: the apply_stage_result call of the handler, whose own
\* exception is passed over
exception_recorded(st, clock, code, stage) ==
    apply_stage_result(st, clock, code, stage, FALSE, <<>>, stage \o "_exception",
                       TRUE, <<>>).st

\* the counters after an apply_stage_result call of the try block returned
result_counted(j, outcome) ==
    CASE outcome \in {"ok", "exists", "no_document"} -> Reset(Counted(j, "success"))
      [] outcome \in {"failed", "file_missing"} -> Reset(Counted(j, "failed"))
      [] outcome = "service_failure" ->
            Bumped(Counted(Counted(j, "failed"), "service_failures"))

\* the outcomes after which the try block ends with "continue"
ContinueOutcomes == {"exists", "no_document", "file_missing"}

\* the except clauses of the loop: res is the result of the try block
caught(res, clock, j, code, stage, outcome) ==
    CASE res.error = NoError ->
            [st |-> res.st,
             job |-> Noted(result_counted(j, outcome), code, outcome, NoError, 1)]
      [] res.error = RetryLimitExceededError ->
            [st |-> res.st,
             job |-> Noted(retry_limit_skipped(j), code, outcome, res.error, 1)]
      [] res.error = InvalidTransitionError /\ stage = STAGE_DOWNLOAD ->
            [st |-> res.st,
             job |-> Noted(invalid_transition_skipped(j), code, outcome, res.error, 1)]
      [] OTHER ->
            [st |-> exception_recorded(res.st, clock, code, stage),
             job |-> Noted(exception_counted(j), code, outcome, res.error,
                           IF outcome = "exception" THEN 1 ELSE 2)]

\* after the try block: "continue" where the code has one, else the check
loop_tail(r, stage, outcome) ==
    [st |-> r.st,
     job |-> IF r.job.last.raised = NoError /\ outcome \in ContinueOutcomes
             THEN continue_loop(r.job)
             ELSE stop_check(r.job,
                             effective_limit(stage, r.job.service_failure_limit))]

\* the remote call raised: no apply_stage_result call was made in the try block
RemoteException == "Exception"

\* the try block of the download worker
download_tried(st, clock, code, outcome) ==
    CASE outcome \in {"exists", "ok"} ->
            apply_stage_result(st, clock, code, STAGE_DOWNLOAD, TRUE,
                               [path |-> "p.pdf", hash |-> "h"], "", TRUE, <<>>)
      [] outcome = "failed" ->
            apply_stage_result(st, clock, code, STAGE_DOWNLOAD, FALSE, <<>>,
                               "http_404", TRUE, <<>>)
      [] outcome = "service_failure" ->
            apply_stage_result(st, clock, code, STAGE_DOWNLOAD, FALSE, <<>>,
                               "http_503", TRUE, <<>>)
      [] OTHER -> Raise(st, RemoteException)

\* one iteration of the loop of download_pdf_job.run_selected
download_record(st, clock, j, code, outcome) ==
    IF find(st, code) = <<>>
    THEN [st |-> find_store(st, code),
          job |-> continue_loop(Noted(Counted(j, "skipped"), code, "missing_record",
                                      NoError, 0))]
    ELSE IF normalize_text(Get(find(st, code)[1], "source_url")) = ""
    THEN [st |-> find_store(st, code),
          job |-> continue_loop(Noted(Counted(j, "skipped"), code,
                                      "missing_source_url", NoError, 0))]
    ELSE loop_tail(caught(download_tried(find_store(st, code), clock, code, outcome),
                          clock, Counted(j, "processed"), code, STAGE_DOWNLOAD, outcome),
                   STAGE_DOWNLOAD, outcome)

\* has_document and has_wayback_url as the archive worker computes them
record_has_document(record) ==
    /\ normalize_text(Get(Get(record, "download"), "status")) = "success"
    /\ normalize_text(Get(Get(record, "download"), "path")) # ""

record_has_wayback_url(record) ==
    normalize_text(Get(Get(record, "wayback"), "url")) # ""

\* the try block of the archive worker, metadata_only_fallback being on
archive_tried(st, clock, code, outcome, record) ==
    CASE outcome = "no_document" ->
            apply_stage_result(st, clock, code, STAGE_ARCHIVE, TRUE,
                               [identifier |-> "id", url |-> "a"], "", FALSE, <<FALSE>>)
      [] outcome = "file_missing" ->
            apply_stage_result(st, clock, code, STAGE_ARCHIVE, FALSE, <<>>,
                               "missing_download_file", TRUE, <<>>)
      [] outcome = "ok" ->
            apply_stage_result(st, clock, code, STAGE_ARCHIVE, TRUE,
                               [identifier |-> "id", url |-> "a"], "", TRUE,
                               <<record_has_wayback_url(record)>>)
      [] outcome \in {"failed", "service_failure"} ->
            apply_stage_result(st, clock, code, STAGE_ARCHIVE, FALSE, <<>>,
                               "archive_upload_failed", TRUE, <<>>)
      [] OTHER -> Raise(st, RemoteException)

\* the outcome of an archive iteration: a record without a document takes
\* the metadata-only path whatever the service would do
archive_outcome(record, outcome) ==
    IF record_has_document(record) THEN outcome ELSE "no_document"

\* one iteration of the loop of archive_job.run_selected
archive_record(st, clock, j, code, outcome) ==
    IF find(st, code) = <<>>
    THEN [st |-> find_store(st, code),
          job |-> continue_loop(Noted(Counted(j, "skipped"), code, "missing_record",
                                      NoError, 0))]
    ELSE loop_tail(caught(archive_tried(find_store(st, code), clock, code,
                                        archive_outcome(find(st, code)[1], outcome),
                                        find(st, code)[1]),
                          clock, Counted(j, "processed"), code, STAGE_ARCHIVE,
                          archive_outcome(find(st, code)[1], outcome)),
                   STAGE_ARCHIVE, archive_outcome(find(st, code)[1], outcome))

\* the try block of the wayback worker
wayback_tried(st, clock, code, outcome) ==
    CASE outcome = "ok" ->
            apply_stage_result(st, clock, code, STAGE_WAYBACK, TRUE, [url |-> "w"], "",
                               TRUE, <<>>)
      [] outcome \in {"failed", "service_failure"} ->
            apply_stage_result(st, clock, code, STAGE_WAYBACK, FALSE, <<>>,
                               "wayback_upload_failed", TRUE, <<>>)
      [] OTHER -> Raise(st, RemoteException)

\* one iteration of the loop of wayback_job.run_wayback_job
wayback_record(st, clock, j, code, outcome) ==
    loop_tail(caught(wayback_tried(st, clock, code, outcome), clock,
                     Counted(j, "processed"), code, STAGE_WAYBACK, outcome),
              STAGE_WAYBACK, outcome)

\* one iteration of the worker of the stage
worker_record(st, clock, j, outcome) ==
    CASE j.stage = STAGE_DOWNLOAD -> download_record(st, clock, j, j.codes[j.pos], outcome)
      [] j.stage = STAGE_ARCHIVE -> archive_record(st, clock, j, j.codes[j.pos], outcome)
      [] j.stage = STAGE_WAYBACK -> wayback_record(st, clock, j, j.codes[j.pos], outcome)

\* a worker before its first iteration
started(stage, codes, limit) ==
    [NoJob EXCEPT !.status = IF codes = <<>> THEN "returned" ELSE "running",
                  !.stage = stage, !.codes = codes, !.service_failure_limit = limit]

WorkerInsert ==
    /\ job.status = "idle"
    /\ \E record \in WorkerInserts : Insert(record, "daily", "")

\* download_pdf_job.run_selected and archive_job.run_selected are called
StartSelected ==
    /\ job.status = "idle"
    /\ \E stage \in {STAGE_DOWNLOAD, STAGE_ARCHIVE}, selected_codes \in SelectedCodes :
         \E limit \in ServiceFailureLimits :
            job' = started(stage, dedupe_keep_order(selected_codes, {}), limit)
    /\ UNCHANGED <<disk, cache, index, now, lastOp, lastResult>>

\* wayback_job.run_wayback_job is called and selects its candidates
StartWayback ==
    /\ job.status = "idle"
    /\ \E limit \in ServiceFailureLimits :
            job' = started(STAGE_WAYBACK,
                           filter_stage_records(Store, STAGE_WAYBACK, RetryLimit), limit)
    /\ cache' = iter_records_store(Store).cache
    /\ UNCHANGED <<disk, index, now, lastOp, lastResult>>

\* one iteration of the for loop
WorkerStep ==
    /\ job.status = "running"
    /\ \E outcome \in Outcomes(job.stage) :
          /\ disk' = worker_record(Store, now, job, outcome).st.disk
          /\ cache' = worker_record(Store, now, job, outcome).st.cache
          /\ index' = worker_record(Store, now, job, outcome).st.index
          /\ job' = worker_record(Store, now, job, outcome).job
    /\ UNCHANGED <<now, lastOp, lastResult>>

\* the fields of the dataclass download_pdf_job.DownloadStageConfig
DownloadStageConfigFields ==
    {"lfs_root", "timeout_sec", "service_failure_limit", "dry_run", "verbose"}

\* the keywords run_workflow constructs download_pdf_job.DownloadStageConfig with
WorkflowStageKeywords ==
    {"ledger_dir", "lfs_root", "timeout_sec", "service_failure_limit", "max_records",
     "lookback_days", "dry_run", "code_filter", "allowed_states"}

\* the constructor of a dataclass: TypeError for a keyword that is no field
construct(fields, keywords) == IF keywords \subseteq fields THEN NoError ELSE "TypeError"

\* a workflow run that ended: with a stop reason, or with the error it raised
workflow_ended(status, stop_reason, raised) ==
    [NoJob EXCEPT !.status = status, !.stage = "workflow",
                  !.last = [NoStep EXCEPT !.outcome = stop_reason, !.raised = raised]]

\* download_upload_pdfinfo_wrk.run_workflow, the first pass of its while
\* loop: the max-records limit is not reached with nothing processed, then
\* the stage config is constructed, and download_pdf_job.run_download_stage,
\* a name that module does not define, is called
run_workflow(max_records) ==
    IF max_records > 0 /\ 0 >= max_records
    THEN workflow_ended("returned", "max_records_reached", NoError)
    ELSE IF construct(DownloadStageConfigFields, WorkflowStageKeywords) # NoError
    THEN workflow_ended("raised", "",
                        construct(DownloadStageConfigFields, WorkflowStageKeywords))
    ELSE workflow_ended("raised", "", "AttributeError")

\* the download -> upload -> pdf-info workflow is run on the ledger
RunWorkflow ==
    /\ job.status = "idle"
    /\ \E max_records \in 0..1 : job' = run_workflow(max_records)
    /\ UNCHANGED <<disk, cache, index, now, lastOp, lastResult>>

NextWorker == WorkerInsert \/ StartSelected \/ StartWayback \/ WorkerStep \/ RunWorkflow

SpecWorker == Init /\ [][NextWorker]_vars

(***************************************************************************)
(* Properties of the stage results (SpecStage).                            *)
(***************************************************************************)
\* the pipeline row apply_stage_result starts from: the stored one, or the
\* default one for a key that has none
PipelineRow(key) ==
    IF HasRow(UPLOAD_NS, key) THEN RowOf(UPLOAD_NS, key)
    ELSE default_upload_row(key, utc_now_text(now))

\* the next state next_state_for_stage computes for a call on the stored row
ComputedNext(key, call) ==
    next_state_for_stage(current_state_of(PipelineRow(key)), call.stage, call.success,
                         wayback_flag(PipelineRow(key), call.stage, call.has_wayback_url),
                         call.has_document)

\* a call of apply_stage_result on an existing key that has an attempt left
StageCallOn(key, call) ==
    /\ call.op = "apply_stage_result"
    /\ call.key = key
    /\ HasRow(URL_NS, key)
    /\ upload_attempt(PipelineRow(key), call.stage) < RetryLimit

\* C1: once the stored attempt counter of a stage is 2, every further
\* apply_stage_result for that key and stage, whatever its outcome, raises
\* RetryLimitExceededError, changes no file and no index entry, and the
\* stored counter is still 2.
C1_RetryLimitBeforeMutation ==
    [][\A key \in Keys, stage \in STAGE_NAMES :
          (/\ lastOp'.op = "apply_stage_result"
           /\ lastOp'.key = key
           /\ lastOp'.stage = stage
           /\ HasRow(UPLOAD_NS, key)
           /\ StoredAttempts(key, stage) = 2)
          => (/\ lastResult'.error = RetryLimitExceededError
              /\ disk' = disk
              /\ index' = index
              /\ StoredAttempts(key, stage)' = 2)]_vars

\* C1 witness: a third call for a stage was refused and the counter is 2
C1_Witness ==
    /\ lastOp.op = "apply_stage_result"
    /\ lastResult.error = RetryLimitExceededError
    /\ HasRow(UPLOAD_NS, lastOp.key)
    /\ StoredAttempts(lastOp.key, lastOp.stage) = 2

\* C4: on a freshly inserted record a successful download result leaves the
\* state DOWNLOAD_SUCCESS with download.attempts = 1; a following failed
\* download result succeeds and leaves DOWNLOAD_FAILED with attempts = 2; a
\* third download result raises RetryLimitExceededError.
C4_DownloadSequence ==
    [][\A key \in Keys :
          (/\ lastOp'.op = "apply_stage_result"
           /\ lastOp'.key = key
           /\ lastOp'.stage = STAGE_DOWNLOAD
           /\ HasRow(URL_NS, key))
          => /\ (~HasRow(UPLOAD_NS, key) /\ lastOp'.success)
                  => (/\ lastResult'.error = NoError
                      /\ StoredState(key)' = STATE_DOWNLOAD_SUCCESS
                      /\ StoredAttempts(key, STAGE_DOWNLOAD)' = 1)
             /\ (/\ HasRow(UPLOAD_NS, key)
                 /\ StoredState(key) = STATE_DOWNLOAD_SUCCESS
                 /\ StoredAttempts(key, STAGE_DOWNLOAD) = 1
                 /\ ~lastOp'.success)
                  => (/\ lastResult'.error = NoError
                      /\ StoredState(key)' = STATE_DOWNLOAD_FAILED
                      /\ StoredAttempts(key, STAGE_DOWNLOAD)' = 2)
             /\ (HasRow(UPLOAD_NS, key) /\ StoredAttempts(key, STAGE_DOWNLOAD) = 2)
                  => lastResult'.error = RetryLimitExceededError]_vars

\* C5: when the next state computed by apply_stage_result is not allowed
\* from the current state of the record, the call raises
\* InvalidTransitionError and the stored files are as before the call.
C5_IllegalTransitionRejected ==
    [][\A key \in Keys :
          (/\ StageCallOn(key, lastOp')
           /\ ComputedNext(key, lastOp').error = NoError
           /\ validate_transition(current_state_of(PipelineRow(key)),
                                  ComputedNext(key, lastOp').state) # NoError)
          => (lastResult'.error = InvalidTransitionError /\ disk' = disk)]_vars

\* C6: a successful archive result without a document is accepted from
\* FETCHED, DOWNLOAD_FAILED and DOWNLOAD_SUCCESS and leaves the state
\* ARCHIVE_UPLOADED_WITHOUT_DOCUMENT.
C6_ArchiveWithoutDocument ==
    [][\A key \in Keys :
          (/\ StageCallOn(key, lastOp')
           /\ lastOp'.stage = STAGE_ARCHIVE
           /\ lastOp'.success
           /\ ~lastOp'.has_document
           /\ current_state_of(PipelineRow(key)) \in
                  {STATE_FETCHED, STATE_DOWNLOAD_FAILED, STATE_DOWNLOAD_SUCCESS})
          => (/\ lastResult'.error = NoError
              /\ StoredState(key)' = STATE_ARCHIVE_UPLOADED_WITHOUT_DOCUMENT)]_vars

ArchivedStates ==
    {STATE_ARCHIVE_UPLOADED_WITH_WAYBACK_URL, STATE_ARCHIVE_UPLOADED_WITHOUT_WAYBACK_URL,
     STATE_ARCHIVE_UPLOADED_WITHOUT_DOCUMENT}

\* C7: a stored ARCHIVE_UPLOADED_* state is never changed by a later
\* operation, and an apply_stage_result whose computed next state differs
\* from it raises InvalidTransitionError.
C7_ArchivedIsTerminal ==
    [][\A key \in Keys :
          (HasRow(UPLOAD_NS, key) /\ StoredState(key) \in ArchivedStates)
          => /\ HasRow(UPLOAD_NS, key)'
             /\ StoredState(key)' = StoredState(key)
             /\ (/\ StageCallOn(key, lastOp')
                 /\ ComputedNext(key, lastOp').state # StoredState(key))
                  => lastResult'.error = InvalidTransitionError]_vars

\* C8: from ARCHIVE_UPLOADED_WITHOUT_DOCUMENT a download result is accepted
\* while the download counter is below 2, and moves the state to
\* DOWNLOAD_SUCCESS on success and to DOWNLOAD_FAILED on failure.
C8_DownloadAfterNoDocument ==
    [][\A key \in Keys :
          (/\ StageCallOn(key, lastOp')
           /\ lastOp'.stage = STAGE_DOWNLOAD
           /\ current_state_of(PipelineRow(key)) = STATE_ARCHIVE_UPLOADED_WITHOUT_DOCUMENT)
          => (/\ lastResult'.error = NoError
              /\ StoredState(key)' = IF lastOp'.success THEN STATE_DOWNLOAD_SUCCESS
                                     ELSE STATE_DOWNLOAD_FAILED)]_vars

(***************************************************************************)
(* Properties of the pipeline patches (SpecPatch).                         *)
(***************************************************************************)
\* C2: after every successful operation every stored stage attempt counter
\* is between 0 and 2 and not lower than before the operation.
C2_AttemptsBoundedMonotone ==
    [][\A key \in Keys, stage \in STAGE_NAMES :
          (lastResult'.error = NoError /\ HasRow(UPLOAD_NS, key)')
          => (/\ StoredAttempts(key, stage)' \in 0..2
              /\ HasRow(UPLOAD_NS, key)
                   => StoredAttempts(key, stage)' >= StoredAttempts(key, stage))]_vars

\* C3: after every successful operation the stored state of every pipeline
\* row is one of the eight states, and a change of the stored state from s
\* to t has t in ALLOWED_TRANSITIONS[s].
C3_StateFollowsTable ==
    [][\A key \in Keys :
          (lastResult'.error = NoError /\ HasRow(UPLOAD_NS, key)')
          => (/\ StoredState(key)' \in ALLOWED_STATES
              /\ (HasRow(UPLOAD_NS, key) /\ StoredState(key) \in ALLOWED_STATES)
                   => StoredState(key)' \in ALLOWED_TRANSITIONS[StoredState(key)])]_vars

(***************************************************************************)
(* Properties of the partition files (Spec).                               *)
(***************************************************************************)
\* the last call was an upsert that moved its key to another partition
UpsertMoved ==
    /\ lastOp.op = "upsert"
    /\ lastResult.error = NoError
    /\ lastOp.partition_before \notin {"", lastResult.partition}

\* C9: after any sequence of calls, failed ones included, every key has at
\* most one row in all the partition files of a namespace.
C9_KeyOncePerNamespace ==
    \A ns \in NamespaceSet, key \in Keys : Cardinality(RowPlaces(ns, key)) <= 1

\* C9 witness: an upsert moved a key that has a pipeline row between two
\* partition files, and the other key is stored too
C9_Witness ==
    /\ UpsertMoved
    /\ HasRow(UPLOAD_NS, lastOp.key)
    /\ \A key \in Keys : HasRow(URL_NS, key)

\* C10: after every successful operation the rows of a key in the three
\* namespaces are all in the same partition, also when an upsert changed the
\* year of the record.
C10_SamePartitionAcrossNamespaces ==
    lastResult.error = NoError
    => \A key \in Keys :
           Cardinality(UNION {RowPartitions(ns, key) : ns \in NamespaceSet}) <= 1

\* C10 witness: an upsert changed the year of a key that has a row in each
\* of the three namespaces
C10_Witness ==
    /\ UpsertMoved
    /\ \A ns \in NamespaceSet : HasRow(ns, lastOp.key)

(***************************************************************************)
(* Properties of the identity row (SpecIdentity).                          *)
(***************************************************************************)
\* the year of a parsed date written with four digits
four_digit_year(parsed) ==
    IF parsed[1] < 10 THEN "000" \o ToString(parsed[1])
    ELSE IF parsed[1] < 100 THEN "00" \o ToString(parsed[1])
    ELSE IF parsed[1] < 1000 THEN "0" \o ToString(parsed[1])
    ELSE ToString(parsed[1])

\* the partition key a date text stands for: its year in four digits when
\* the text is a date, "unknown" when it is empty or not a date
YearPartition(gr_date) ==
    IF parse_iso_date(gr_date) = <<>> THEN "unknown"
    ELSE four_digit_year(parse_iso_date(gr_date))

\* C11: every identity row is stored in the partition named by the
\* four-digit year of its gr_date, or in "unknown" when the date is empty or
\* not a date, and a successful insert returns that partition key.
C11_PartitionIsFourDigitYear ==
    /\ \A key \in Keys :
           HasRow(URL_NS, key)
           => RowPartitions(URL_NS, key) = {YearPartition(RowOf(URL_NS, key)["gr_date"])}
    /\ (lastOp.op = "insert" /\ lastResult.error = NoError)
       => lastResult.partition = YearPartition(RowOf(URL_NS, lastOp.key)["gr_date"])

(***************************************************************************)
(* Properties of update_many (SpecBatch).                                  *)
(***************************************************************************)
\* the last call was an update_many that raised
BatchFailed == lastOp.op = "update_many" /\ lastResult.error # NoError

\* the last call was an update_many that returned
BatchDone == lastOp.op = "update_many" /\ lastResult.error = NoError

\* what find() and exists() return for every key on a store
FindAll(st) == [key \in Keys |-> find(st, key)]

ExistsAll(st) == [key \in Keys |-> exists(st, key)]

\* the patch is visible in the record find() returns for its key
Visible(st, record) ==
    LET found == find(st, patch_key(record))
    IN /\ found # <<>>
       /\ "title" \in DOMAIN record => Get(found[1], "title") = record["title"]
       /\ "state" \in DOMAIN record => Get(found[1], "state") = record["state"]
       /\ "pdf_info" \in DOMAIN record
            => \A f \in DOMAIN record["pdf_info"] :
                   Get(Get(found[1], "pdf_info"), f) = record["pdf_info"][f]
       /\ "gr_date" \in DOMAIN record => Get(found[1], "gr_date") = record["gr_date"]

\* update_many of a batch on the store of the current state
BatchOn(records) == update_many(Store, now, records, "daily", NotedDate)

\* C12: an update_many that raises (absent key, immutable field, change of
\* partition) leaves every partition file of every namespace as it was
\* before the call, the files touched by the valid patches that precede
\* the invalid one included.
C12_FailedBatchWritesNothing ==
    [][BatchFailed' => disk' = disk]_vars

\* C12 witness: a batch of two patches raised on its second patch, and its
\* first patch alone is valid and changes a partition file
C12_Witness ==
    /\ BatchFailed
    /\ Len(lastOp.records) = 2
    /\ update(Store, now, lastOp.records[1], lastOp.run_type, lastOp.crawl_date).error
         = NoError
    /\ update(Store, now, lastOp.records[1], lastOp.run_type, lastOp.crawl_date).st.disk
         # disk

\* C13: in every reachable store and for every batch, after an update_many
\* that raised, find(k) and exists(k) return for every key what they
\* returned before the call; after one that returned, every patch of the
\* batch is visible through find().
C13_BatchAllOrNothing ==
    \A records \in NotedBatches :
        IF BatchOn(records).error # NoError
        THEN /\ FindAll(BatchOn(records).st) = FindAll(Store)
             /\ ExistsAll(BatchOn(records).st) = ExistsAll(Store)
        ELSE \A i \in 1..Len(records) : Visible(BatchOn(records).st, records[i])

\* C13 witness: a batch of two patches of different rows of a record
\* returned, and the record has its three rows
C13_Witness ==
    /\ BatchDone
    /\ Len(lastOp.records) = 2
    /\ lastOp.records[1] # lastOp.records[2]
    /\ \A ns \in NamespaceSet : HasRow(ns, lastOp.key)

(***************************************************************************)
(* Properties of single calls on an existing or absent key.                *)
(***************************************************************************)
\* C14: in every reachable store, insert of a patch whose key has an
\* identity row raises DuplicateUniqueCodeError and leaves every partition
\* file and the result of find() for every key as they were.
C14_DuplicateInsertRejected ==
    \A record \in IdentityInserts, run \in InsertRuns :
        exists(Store, patch_key(record))
        => /\ insert(Store, now, record, run[1], run[2]).error = DuplicateUniqueCodeError
           /\ insert(Store, now, record, run[1], run[2]).st.disk = disk
           /\ FindAll(insert(Store, now, record, run[1], run[2]).st) = FindAll(Store)

\* C14 witness: an insert was rejected as a duplicate of a record stored
\* in the partition of the records without a date
C14_Witness ==
    /\ lastOp.op = "insert"
    /\ lastResult.error = DuplicateUniqueCodeError
    /\ HasRow(URL_NS, lastOp.key)
    /\ lastOp.partition_before = "unknown"

\* the key has a row in a partition file of the store
StoredIn(st, ns, key) ==
    \E p \in DOMAIN st.disk[ns] :
        \E i \in 1..Len(st.disk[ns][p]) : row_key(st.disk[ns][p][i]) = key

\* the first patch of the batch whose key has no identity row, 0 if none
FirstAbsent(records) ==
    IF \A i \in 1..Len(records) : exists(Store, patch_key(records[i])) THEN 0
    ELSE CHOOSE i \in 1..Len(records) :
             /\ ~exists(Store, patch_key(records[i]))
             /\ \A j \in 1..(i - 1) : exists(Store, patch_key(records[j]))

\* the call raised RecordNotFoundError and its store has no row of the key
NotFoundNoRow(res, key) ==
    /\ res.error = RecordNotFoundError
    /\ \A ns \in NamespaceSet : ~StoredIn(res.st, ns, key)

\* C15: in every reachable store, update and apply_stage_result on a key
\* without identity row raise RecordNotFoundError and leave the key without
\* a row in every namespace; so does update_many of a batch with a patch of
\* such a key.
C15_AbsentKeyNotFound ==
    /\ \A record \in UpdatePatches :
           ~exists(Store, patch_key(record))
           => NotFoundNoRow(update(Store, now, record, "daily", ""), patch_key(record))
    /\ \A key \in Keys :
           ~exists(Store, key)
           => NotFoundNoRow(apply_stage_result(Store, now, key, STAGE_DOWNLOAD, FALSE,
                                               <<>>, "", TRUE, <<>>), key)
    /\ \A records \in Batches :
           FirstAbsent(records) # 0
           => NotFoundNoRow(update_many(Store, now, records, "daily", ""),
                            patch_key(records[FirstAbsent(records)]))

\* C15 witness: the call on a key without identity row raised
\* RecordNotFoundError while the other key is stored with its three rows
C15_Witness ==
    /\ lastOp.op \in {"update", "update_many", "apply_stage_result"}
    /\ lastResult.error = RecordNotFoundError
    /\ ~HasRow(URL_NS, lastOp.key)
    /\ \E key \in Keys : \A ns \in NamespaceSet : HasRow(ns, key)

\* the rows of a key in the partition files of a store
StoredRows(st, ns, key) ==
    {st.disk[ns][pl[1]][pl[2]] :
        pl \in {q \in UNION {{<<p, i>> : i \in 1..Len(st.disk[ns][p])} :
                                p \in DOMAIN st.disk[ns]} :
                   row_key(st.disk[ns][q[1]][q[2]]) = key}}

\* the patch carries another value for an immutable field of the stored row
ChangesImmutable(record) ==
    \E f \in DOMAIN record \cap UrlImmutable :
        RowOf(URL_NS, patch_key(record))[f] # record[f]

\* the call kept the immutable fields of the stored identity row of the
\* patch, and when the patch changes one it raised and wrote nothing
KeepsImmutable(res, record) ==
    /\ \A row \in StoredRows(res.st, URL_NS, patch_key(record)) :
           \A f \in UrlImmutable : row[f] = RowOf(URL_NS, patch_key(record))[f]
    /\ ChangesImmutable(record)
         => (res.error = ImmutableFieldUpdateError /\ res.st.disk = disk)

\* C16: in every reachable store, update and upsert of a patch on a stored
\* record leave the record key, creation timestamp, first-seen crawl date
\* and first-seen run type of its identity row as they are, and a patch
\* with another value for one of them raises ImmutableFieldUpdateError and
\* changes no partition file.
C16_ImmutableIdentityFields ==
    \A record \in IdentityPatches, run \in PatchRuns :
        exists(Store, patch_key(record))
        => /\ KeepsImmutable(update(Store, now, record, run[1], run[2]), record)
           /\ KeepsImmutable(upsert(Store, now, record, run[1], run[2]), record)

\* C16 witness: an upsert was rejected for an immutable field, at a later
\* clock than the creation of the row, which keeps its creation timestamp
C16_Witness ==
    /\ lastOp.op = "upsert"
    /\ lastResult.error = ImmutableFieldUpdateError
    /\ now = MaxClock
    /\ RowOf(URL_NS, lastOp.key)["created_at_utc"] = utc_now_text(0)
    /\ RowOf(URL_NS, lastOp.key)["first_seen_run_type"] = "daily"

(***************************************************************************)
(* Properties of a change of the year of a stored record.                  *)
(***************************************************************************)
\* the patch carries a gr_date of another partition than the one that holds
\* the identity row of its key
Repartitions(record) ==
    /\ "gr_date" \in DOMAIN record
    /\ exists(Store, patch_key(record))
    /\ partition_for_gr_date(record["gr_date"]) # PartitionBefore(patch_key(record))

\* patch i of the batch changes the partition and the patches before it
\* are patches update_many accepts
RepartitionAt(records, i) ==
    /\ Repartitions(records[i])
    /\ ~ChangesImmutable(records[i])
    /\ \A j \in 1..(i - 1) :
           /\ exists(Store, patch_key(records[j]))
           /\ ~ChangesImmutable(records[j])
           /\ ~Repartitions(records[j])

\* the error kinds of the store
LedgerErrors ==
    {RecordNotFoundError, DuplicateUniqueCodeError, InvalidTransitionError,
     RetryLimitExceededError, ImmutableFieldUpdateError}

RowSets(st) ==
    [ns \in NamespaceSet |->
        [p \in {q \in DOMAIN st.disk[ns] : st.disk[ns][q] # <<>>} |->
            {st.disk[ns][p][i] : i \in 1..Len(st.disk[ns][p])}]]

\* the patches of Spec, and a patch of an immutable field for every key
EquivalencePatches ==
    InsertPatches \cup UpdatePatches \cup UpsertPatches \cup BatchPatches
    \cup {[record_key |-> k, first_seen_run_type |-> "monthly"] : k \in Keys}

UpsertOn(record) == upsert(Store, now, record, "daily", "")

UpdateOn(record) == update(Store, now, record, "daily", "")

InsertOn(record) == insert(Store, now, record, "daily", "")

\* two calls did the same: the same error, the same rows in the same
\* partition files
SameOutcome(res1, res2) ==
    /\ res1.error = res2.error
    /\ RowSets(res1.st) = RowSets(res2.st)

\* the call returned, and every row of the key is in the partition of the
\* new date and in no other
MovedTo(res, key, partition) ==
    /\ res.error = NoError
    /\ \A ns \in NamespaceSet :
           \A p \in DOMAIN res.st.disk[ns] \ {partition} :
               \A i \in 1..Len(res.st.disk[ns][p]) : row_key(res.st.disk[ns][p][i]) # key
    /\ \A ns \in NamespaceSet : HasRow(ns, key) => StoredIn(res.st, ns, key)

LaterOf(crawl_date, last_seen) ==
    IF TextGreater(crawl_date, last_seen) THEN crawl_date ELSE last_seen

\* the call, when it returned, left last_seen_crawl_date of the key at the
\* given date
LastSeenIs(res, key, date_text) ==
    res.error = NoError
    => \A row \in StoredRows(res.st, URL_NS, key) : row["last_seen_crawl_date"] = date_text

MonthlyRuns == {run \in PatchRuns : run[1] = "monthly"}

\* C19 as stated: a monthly-run update or upsert of a stored record leaves
\* last_seen_crawl_date at the crawl date when that date is strictly newer
\* than the stored value and at the stored value otherwise, whatever the
\* patch, so that the stored date never moves to an older one.
C19_LastSeenOnlyAdvances ==
    \A record \in IdentityPatches, run \in MonthlyRuns :
        exists(Store, patch_key(record))
        => /\ LastSeenIs(update(Store, now, record, run[1], run[2]), patch_key(record),
                         LaterOf(normalize_crawl_date(run[2]),
                                 RowOf(URL_NS, patch_key(record))["last_seen_crawl_date"]))
           /\ LastSeenIs(upsert(Store, now, record, run[1], run[2]), patch_key(record),
                         LaterOf(normalize_crawl_date(run[2]),
                                 RowOf(URL_NS, patch_key(record))["last_seen_crawl_date"]))

\* the date the monthly rule compares the crawl date with: the one of the
\* patch when the patch carries last_seen_crawl_date, else the stored one
LastSeenBase(record) ==
    IF "last_seen_crawl_date" \in DOMAIN record THEN record["last_seen_crawl_date"]
    ELSE RowOf(URL_NS, patch_key(record))["last_seen_crawl_date"]

\* C19 amended: a monthly-run update or upsert of a stored record with a
\* patch that does not carry last_seen_crawl_date leaves the date at the
\* crawl date when that is strictly newer than the stored value and at the
\* stored value otherwise; a patch that carries last_seen_crawl_date sets
\* the date first, to an older one too, and the crawl date is compared
\* with the date of the patch.
C19_LastSeenAdvancesFromPatched ==
    \A record \in IdentityPatches, run \in MonthlyRuns :
        exists(Store, patch_key(record))
        => /\ LastSeenIs(update(Store, now, record, run[1], run[2]), patch_key(record),
                         LaterOf(normalize_crawl_date(run[2]), LastSeenBase(record)))
           /\ LastSeenIs(upsert(Store, now, record, run[1], run[2]), patch_key(record),
                         LaterOf(normalize_crawl_date(run[2]), LastSeenBase(record)))

\* C19 witness: a monthly run with a newer crawl date advanced the date of
\* a record, and an older crawl date would leave it
C19_Witness ==
    /\ lastOp.op \in {"update", "upsert"}
    /\ lastOp.run_type = "monthly"
    /\ lastResult.error = NoError
    /\ lastOp.crawl_date = TodayText
    /\ RowOf(URL_NS, lastOp.key)["last_seen_crawl_date"] = TodayText
    /\ RowOf(URL_NS, lastOp.key)["first_seen_crawl_date"] # TodayText

(***************************************************************************)
(* find() on a record without pipeline row (SpecBatch).                    *)
(***************************************************************************)
\* the unified record has the pipeline fields of a record never processed
Synthesized(record) ==
    /\ Get(record, "state") = STATE_FETCHED
    /\ \A stage \in {STAGE_DOWNLOAD, STAGE_WAYBACK, STAGE_ARCHIVE} :
           /\ Get(Get(record, stage), "status") = "not_attempted"
           /\ Get(Get(record, stage), "attempts") = 0
           /\ Get(Get(record, "attempt_counts"), stage) = 0

\* C20: find() of a key with an identity row and no pipeline row returns a
\* record with state FETCHED, download, wayback and archive not_attempted
\* and all attempt counts 0; find() of a key without identity row returns
\* None; the call leaves every partition file as it was and the key
\* without pipeline row.
C20_FindSynthesizesDefaults ==
    [][\A key \in Keys :
          (lastOp'.op = "find" /\ lastOp'.key = key)
          => /\ disk' = disk
             /\ HasRow(UPLOAD_NS, key)' = HasRow(UPLOAD_NS, key)
             /\ ~HasRow(URL_NS, key) => find(Store, key) = <<>>
             /\ (HasRow(URL_NS, key) /\ ~HasRow(UPLOAD_NS, key))
                  => (find(Store, key) # <<>> /\ Synthesized(find(Store, key)[1]))
      ]_vars

\* C20 witness: find() was called on a key that has an identity row and an
\* extraction row and no pipeline row, while the other key is absent
C20_Witness ==
    /\ lastOp.op = "find"
    /\ HasRow(URL_NS, lastOp.key)
    /\ HasRow(PDF_NS, lastOp.key)
    /\ ~HasRow(UPLOAD_NS, lastOp.key)
    /\ \E key \in Keys : ~HasRow(URL_NS, key)

(***************************************************************************)
(* The rows insert writes (Spec).                                          *)
(***************************************************************************)
\* patches of insert for a key: without pipeline and extraction field, with
\* each of the seven pipeline fields, with pdf_info, with both
InsertShapes(key) ==
    {[record_key |-> key, gr_date |-> "2024-03-01"],
     [record_key |-> key, state |-> STATE_FETCHED],
     [record_key |-> key, download |-> [status |-> "success"]],
     [record_key |-> key, wayback |-> [url |-> "w"]],
     [record_key |-> key, archive |-> [identifier |-> "a"]],
     [record_key |-> key, hf |-> [path |-> "p.pdf"]],
     [record_key |-> key, lfs_path |-> "p.pdf"],
     [record_key |-> key, attempt_counts |-> [download |-> 1]],
     [record_key |-> key, pdf_info |-> PdfInfo],
     [record_key |-> key, gr_date |-> "2023-05-01", state |-> STATE_FETCHED,
      pdf_info |-> PdfInfo]}

\* the number of rows of a key in the partition files of a store
RowCount(st, ns, key) ==
    Cardinality({pl \in UNION {{<<p, i>> : i \in 1..Len(st.disk[ns][p])} :
                                  p \in DOMAIN st.disk[ns]} :
                    row_key(st.disk[ns][pl[1]][pl[2]]) = key})

\* the insert returned and wrote one identity row, a pipeline row exactly
\* for a patch with a pipeline field, an extraction row exactly for a
\* patch with pdf_info, and left the rows of the other keys
InsertWrote(res, record) ==
    /\ res.error = NoError
    /\ RowCount(res.st, URL_NS, patch_key(record)) = 1
    /\ RowCount(res.st, UPLOAD_NS, patch_key(record))
         = (IF DOMAIN record \cap {"state", "download", "wayback", "archive", "hf",
                                    "lfs_path", "attempt_counts"} # {}
            THEN 1 ELSE 0)
    /\ RowCount(res.st, PDF_NS, patch_key(record))
         = (IF "pdf_info" \in DOMAIN record THEN 1 ELSE 0)
    /\ \A ns \in NamespaceSet, key \in Keys \ {patch_key(record)} :
           StoredRows(res.st, ns, key) = StoredRows(Store, ns, key)

\* C21: in every reachable store, insert of a patch of an absent key
\* returns and writes exactly one identity row for the key, a pipeline row
\* if and only if the patch carries a pipeline field, an extraction row if
\* and only if it carries pdf_info, and changes no row of another key.
C21_InsertWritesPatchedNamespaces ==
    \A key \in Keys :
        ~exists(Store, key)
        => \A record \in InsertShapes(key) :
               InsertWrote(insert(Store, now, record, "daily", ""), record)

\* C21 witness: an insert of a patch with a pipeline field and without
\* pdf_info returned while the other key has its three rows
C21_Witness ==
    /\ lastOp.op = "insert"
    /\ lastResult.error = NoError
    /\ HasRow(UPLOAD_NS, lastOp.key)
    /\ ~HasRow(PDF_NS, lastOp.key)
    /\ \E key \in Keys \ {lastOp.key} : \A ns \in NamespaceSet : HasRow(ns, key)

(***************************************************************************)
(* Records are never deleted (Spec).                                       *)
(***************************************************************************)
\* C22: no call of a handler, returned or raised, removes a key from a
\* namespace: a key with a row in the partition files of a namespace before
\* the call has one after it.
C22_NoRecordDeleted ==
    [][\A ns \in NamespaceSet, key \in Keys : HasRow(ns, key) => HasRow(ns, key)']_vars

\* C22 witness: an upsert moved a record with its three rows into the
\* partition file that holds the rows of the other record
C22_Witness ==
    /\ UpsertMoved
    /\ \A ns \in NamespaceSet : HasRow(ns, lastOp.key)
    /\ \E key \in Keys \ {lastOp.key} :
           /\ RowPartitions(URL_NS, key) = {lastResult.partition}
           /\ RowPartitions(UPLOAD_NS, key) = {lastResult.partition}

(***************************************************************************)
(* Order of the rows of a partition file.                                  *)
(***************************************************************************)
\* the well-formed row lists written: one row per key, keys distinct, in
\* every order
RowLists ==
    {<<>>} \cup {<<[record_key |-> k, title |-> "t"]>> : k \in Keys}
    \cup UNION {{<<[record_key |-> a, title |-> "t"], [record_key |-> b, title |-> "t"]>> :
                    b \in Keys \ {a}} : a \in Keys}

\* the rows are in ascending record-key order
RowsSorted(rows) ==
    \A i \in 1..Len(rows), j \in 1..Len(rows) :
        i < j => KeyLeq(row_key(rows[i]), row_key(rows[j]))

\* what a process started after the write reads: the lines of the file
FreshRead(st, ns, partition) ==
    partition_rows([st EXCEPT !.cache = EmptyStore.cache], ns, partition)

\* C23: in every reachable store, _write_partition of a well-formed row list
\* followed by _read_partition returns the rows of the list sorted by record
\* key, in the writing process and in a process started after the write.
C23_WriteThenReadSorted ==
    \A ns \in NamespaceSet, partition \in Partitions, rows \in RowLists :
        /\ partition_rows(write_partition(Store, ns, partition, rows), ns, partition)
             = sort_rows(rows)
        /\ FreshRead(write_partition(Store, ns, partition, rows), ns, partition)
             = sort_rows(rows)

\* C24: after every call of insert, upsert, update, update_many and
\* apply_stage_result, the rows of every partition file are in ascending
\* record-key order, also when update_many created a pipeline or extraction
\* row for a key smaller than the keys already in the file.
C24_FilesSortedAfterRewrite ==
    \A ns \in NamespaceSet :
        \A partition \in DOMAIN disk[ns] : RowsSorted(disk[ns][partition])

(***************************************************************************)
(* The index built from the files (SpecFiles).                             *)
(***************************************************************************)
\* some key has two rows in the files of one namespace
KeyTwice(st) ==
    \E ns \in NamespaceSet, key \in Keys : RowCount(st, ns, key) >= 2

\* C25: on every layout of files, refresh_index raises
\* DuplicateUniqueCodeError if some record key has two rows in one namespace,
\* in one partition file or in two, and returns otherwise, also when a key
\* has one row in each of several namespaces.
C25_RefreshRejectsDuplicateKeys ==
    refresh_index(Store).error
        = (IF KeyTwice(Store) THEN DuplicateUniqueCodeError ELSE NoError)

\* C25 witness: refresh_index raised on files where a key has a row in two
\* identity files, no file holds a key twice, and the key has a pipeline row
C25_Witness ==
    /\ lastOp.op = "refresh_index"
    /\ lastResult.error = DuplicateUniqueCodeError
    /\ \E key \in Keys :
           /\ Cardinality(RowPartitions(URL_NS, key)) = 2
           /\ HasRow(UPLOAD_NS, key)
    /\ \A ns \in NamespaceSet, key \in Keys :
           Cardinality(RowPlaces(ns, key)) = Cardinality(RowPartitions(ns, key))

\* the store was opened on the files and no call has raised
Opened == lastOp.op # "init" /\ lastResult.error = NoError

\* the keys of the records, in the order of the records
RecordKeys(records) == [i \in 1..Len(records) |-> records[i]["record_key"]]

\* one record per key with an identity row, keys ascending, each record the
\* one find() returns for its key
OnePerKeyAscending(records) ==
    /\ {records[i]["record_key"] : i \in 1..Len(records)}
         = {key \in Keys : HasRow(URL_NS, key)}
    /\ \A i \in 1..Len(records), j \in 1..Len(records) :
           i < j => /\ KeyLeq(records[i]["record_key"], records[j]["record_key"])
                    /\ records[i]["record_key"] # records[j]["record_key"]
    /\ \A i \in 1..Len(records) : <<records[i]>> = find(Store, records[i]["record_key"])

\* C26: in every store opened on the files, iter_records returns exactly one
\* unified record for every key with a row in the identity namespace, in
\* ascending key order whatever the order of the rows in the files, and a
\* second call right after the first returns the same sequence.
C26_IterRecordsOnePerKeyInOrder ==
    Opened
    => /\ OnePerKeyAscending(iter_records(Store))
       /\ iter_records(iter_records_store(Store)) = iter_records(Store)

\* C26 witness: iter_records ran on a store with two records whose identity
\* rows lie in one file, the larger key first
C26_Witness ==
    /\ lastOp.op = "iter_records"
    /\ \E partition \in DOMAIN disk[URL_NS] :
           /\ Len(disk[URL_NS][partition]) = 2
           /\ ~RowsSorted(disk[URL_NS][partition])
    /\ Len(iter_records(Store)) = 2

(***************************************************************************)
(* The partitions listed (SpecFiles).                                      *)
(***************************************************************************)
\* the partition keys from the most recent year to the oldest, unknown last
RecentFirst == <<"2024", "2023", "999", "unknown">>

Place(partition) == CHOOSE i \in 1..Len(RecentFirst) : RecentFirst[i] = partition

\* the list names each partition once, most recent year first, unknown last
OnceRecentFirst(listed) ==
    \A i \in 1..Len(listed), j \in 1..Len(listed) :
        i < j => Place(listed[i]) < Place(listed[j])

\* the partitions with an identity row in their file
PartitionsWithRecords == UNION {RowPartitions(URL_NS, key) : key \in Keys}

\* C27 as stated: list_partitions returns the partitions that hold a record,
\* each once, years descending and unknown last.
C27_ListsPartitionsWithRecords ==
    Opened
    => /\ {list_partitions(Store)[i] : i \in 1..Len(list_partitions(Store))}
            = PartitionsWithRecords
       /\ OnceRecentFirst(list_partitions(Store))

\* C27: in every store opened on the files, list_partitions returns the
\* partitions that have a file in the identity namespace, a file without
\* rows included, each once, years descending and unknown last; every
\* partition that holds a record is among them.
C27_ListsPartitionFiles ==
    Opened
    => /\ {list_partitions(Store)[i] : i \in 1..Len(list_partitions(Store))}
            = DOMAIN disk[URL_NS]
       /\ PartitionsWithRecords \subseteq DOMAIN disk[URL_NS]
       /\ OnceRecentFirst(list_partitions(Store))

\* C27 witness: list_partitions ran on a store with records in the files of
\* 2023 and unknown and a 2024 file without rows
C27_Witness ==
    /\ lastOp.op = "list_partitions"
    /\ PartitionsWithRecords = {"2023", "unknown"}
    /\ list_partitions(Store) = <<"2024", "2023", "unknown">>

(***************************************************************************)
(* The index and the files (Spec).                                         *)
(***************************************************************************)
\* the indexed place of a key holds a row of the key in the file
PointsAtRow(ns, key) ==
    /\ index[ns][key].partition \in DOMAIN disk[ns]
    /\ index[ns][key].index \in 1..Len(disk[ns][index[ns][key].partition])
    /\ row_key(disk[ns][index[ns][key].partition][index[ns][key].index]) = key

\* a cached partition holds the rows of its file
CacheIsFile(ns, partition) ==
    cache[ns][partition]
        = (IF partition \in DOMAIN disk[ns] THEN disk[ns][partition] ELSE <<>>)

\* C28: after every call of a handler, returned or raised, the index of each
\* namespace holds exactly the keys with a row in the namespace's partition
\* files, each indexed place is the place of the key's row in its file, and
\* every cached partition equals its file, so that find reads the rows last
\* written.
C28_IndexAgreesWithFiles ==
    \A ns \in NamespaceSet :
        /\ DOMAIN index[ns] = {key \in Keys : HasRow(ns, key)}
        /\ \A key \in DOMAIN index[ns] : PointsAtRow(ns, key)
        /\ \A partition \in DOMAIN cache[ns] : CacheIsFile(ns, partition)

\* C28 witness: an update_many returned after it added a row behind a row of
\* a larger key, and the index holds the place of both
C28_Witness ==
    /\ lastOp.op = "update_many"
    /\ lastResult.error = NoError
    /\ \E ns \in NamespaceSet :
           \E partition \in DOMAIN disk[ns] :
               /\ ~RowsSorted(disk[ns][partition])
               /\ \A i \in 1..Len(disk[ns][partition]) :
                      /\ row_key(disk[ns][partition][i]) \in DOMAIN index[ns]
                      /\ index[ns][row_key(disk[ns][partition][i])]
                           = RecordLocation(partition, i)

(***************************************************************************)
(* The table of next states (SpecStage).                                   *)
(***************************************************************************)
\* has_wayback_url as a caller may pass it: None, True or False
WaybackFlags == {<<>>, <<TRUE>>, <<FALSE>>}

Returns(state) == [error |-> NoError, state |-> state]

\* the rows of the table for one current state and one pair of flags
TableRows(current_state, has_wayback_url, has_document) ==
    /\ next_state_for_stage(current_state, STAGE_DOWNLOAD, TRUE, has_wayback_url,
                            has_document) = Returns(STATE_DOWNLOAD_SUCCESS)
    /\ next_state_for_stage(current_state, STAGE_DOWNLOAD, FALSE, has_wayback_url,
                            has_document) = Returns(STATE_DOWNLOAD_FAILED)
    /\ next_state_for_stage(current_state, STAGE_WAYBACK, TRUE, has_wayback_url,
                            has_document) = Returns(STATE_WAYBACK_UPLOADED)
    /\ next_state_for_stage(current_state, STAGE_WAYBACK, FALSE, has_wayback_url,
                            has_document) = Returns(STATE_WAYBACK_UPLOAD_FAILED)
    /\ next_state_for_stage(current_state, STAGE_ARCHIVE, FALSE, has_wayback_url,
                            has_document) = Returns(current_state)
    /\ next_state_for_stage(current_state, STAGE_ARCHIVE, TRUE, has_wayback_url,
                            has_document)
         = Returns(IF ~has_document THEN STATE_ARCHIVE_UPLOADED_WITHOUT_DOCUMENT
                   ELSE IF has_wayback_url = <<TRUE>>
                        THEN STATE_ARCHIVE_UPLOADED_WITH_WAYBACK_URL
                        ELSE STATE_ARCHIVE_UPLOADED_WITHOUT_WAYBACK_URL)

\* C29: for every current state, the stored state of the record included,
\* and every stage, outcome and pair of flags, next_state_for_stage returns
\* the state of the table: download gives DOWNLOAD_SUCCESS or
\* DOWNLOAD_FAILED, wayback gives WAYBACK_UPLOADED or
\* WAYBACK_UPLOAD_FAILED, a failed archive gives the current state, and a
\* successful archive gives ARCHIVE_UPLOADED_WITHOUT_DOCUMENT without a
\* document, else ARCHIVE_UPLOADED_WITH_WAYBACK_URL with a wayback url, else
\* ARCHIVE_UPLOADED_WITHOUT_WAYBACK_URL.
C29_NextStateEqualsTable ==
    \A current_state \in ALLOWED_STATES \cup {current_state_of(PipelineRow(StageKey))},
       has_wayback_url \in WaybackFlags, has_document \in BOOLEAN :
        TableRows(current_state, has_wayback_url, has_document)

\* C29 witness: apply_stage_result took the next state of a successful
\* archive stage with a document and a wayback url for a record stored in
\* DOWNLOAD_SUCCESS
C29_Witness ==
    /\ lastOp.op = "apply_stage_result"
    /\ lastOp.stage = STAGE_ARCHIVE
    /\ lastOp.success
    /\ lastOp.has_document
    /\ lastOp.has_wayback_url = <<TRUE>>
    /\ lastResult.error = NoError
    /\ HasRow(UPLOAD_NS, lastOp.key)
    /\ RowOf(UPLOAD_NS, lastOp.key)["state"] = STATE_DOWNLOAD_SUCCESS

(***************************************************************************)
(* The way into the archive states (SpecPatch).                            *)
(***************************************************************************)
ArchivedWithDocument ==
    {STATE_ARCHIVE_UPLOADED_WITH_WAYBACK_URL, STATE_ARCHIVE_UPLOADED_WITHOUT_WAYBACK_URL}

\* the state find() reports for a key, None for a key without a record
ReportedState(key) ==
    IF HasRow(URL_NS, key) THEN current_state_of(PipelineRow(key)) ELSE None

\* C30: no call of a handler takes a record from FETCHED, or a key from
\* having no record, straight to ARCHIVE_UPLOADED_WITH_WAYBACK_URL or
\* ARCHIVE_UPLOADED_WITHOUT_WAYBACK_URL: a record in one of these states
\* was in DOWNLOAD_SUCCESS before.
C30_ArchivedOnlyAfterDownload ==
    [][\A key \in Keys :
          ReportedState(key) \in {None, STATE_FETCHED}
          => ReportedState(key)' \notin ArchivedWithDocument]_vars

(***************************************************************************)
(* What a stage result changes (Spec).                                     *)
(***************************************************************************)
\* the partitions of a store that hold a row of the key
PartitionsOf(st, ns, key) ==
    {p \in DOMAIN st.disk[ns] :
        \E i \in 1..Len(st.disk[ns][p]) : row_key(st.disk[ns][p][i]) = key}

\* the pipeline row of a key in a store
PipelineRowIn(st, key) == CHOOSE row \in StoredRows(st, UPLOAD_NS, key) : TRUE

\* the attempt counters of the row after the call are those of the row
\* before it, the counter of the stage one higher
OneAttemptMore(before, after, stage) ==
    /\ \A other \in STAGE_NAMES :
           upload_attempt(after, other)
             = upload_attempt(before, other) + (IF other = stage THEN 1 ELSE 0)
    /\ to_int(StageObj(after, "hf"), "attempts", 0)
         = to_int(StageObj(before, "hf"), "attempts", 0)

\* a call that returned left the identity and extraction files as they
\* were, left the pipeline rows of the other keys, and left one pipeline row
\* of the key, in the partition of its identity row, with one attempt more
StageFrame(res, key, stage) ==
    res.error = NoError
    => /\ res.st.disk[URL_NS] = disk[URL_NS]
       /\ res.st.disk[PDF_NS] = disk[PDF_NS]
       /\ \A other \in Keys \ {key} :
              /\ StoredRows(res.st, UPLOAD_NS, other) = StoredRows(Store, UPLOAD_NS, other)
              /\ PartitionsOf(res.st, UPLOAD_NS, other) = PartitionsOf(Store, UPLOAD_NS, other)
       /\ RowCount(res.st, UPLOAD_NS, key) = 1
       /\ PartitionsOf(res.st, UPLOAD_NS, key) = PartitionsOf(Store, URL_NS, key)
       /\ OneAttemptMore(PipelineRow(key), PipelineRowIn(res.st, key), stage)

\* C31: in every reachable store, an apply_stage_result that returns changes
\* no identity file and no extraction file and no pipeline row of another
\* key; the key has exactly one pipeline row afterwards, in the partition of
\* its identity row, created if there was none, and of its attempt counters
\* only the counter of the stage changed, by one.
C31_StageResultChangesOnePipelineRow ==
    \A key \in Keys, stage \in STAGE_NAMES, success \in BOOLEAN :
        \A metadata \in StageMetadata(stage), flags \in StageFlags(stage) :
            StageFrame(apply_stage_result(Store, now, key, stage, success, metadata, "",
                                          flags[1], flags[2]),
                       key, stage)

\* C31 witness: apply_stage_result returned for a key that had no pipeline
\* row, while the other key has an identity, a pipeline and an extraction row
C31_Witness ==
    /\ lastOp.op = "apply_stage_result"
    /\ lastResult.error = NoError
    /\ StoredAttempts(lastOp.key, lastOp.stage) = 1
    /\ RowPartitions(UPLOAD_NS, lastOp.key) = {lastOp.partition_before}
    /\ \E other \in Keys \ {lastOp.key} : \A ns \in NamespaceSet : HasRow(ns, other)

(***************************************************************************)
(* The state after an archive result (SpecStage).                          *)
(***************************************************************************)
\* the last call was a returned archive success with a document
ArchivedDocument ==
    /\ lastOp.op = "apply_stage_result"
    /\ lastOp.stage = STAGE_ARCHIVE
    /\ lastOp.success
    /\ lastOp.has_document
    /\ lastResult.error = NoError

\* the stored wayback sub-object of the key has a non-empty url; an archive
\* result leaves that sub-object as it was at the time of the call
HasStoredWaybackUrl(key) ==
    normalize_text(Get(StageObj(RowOf(UPLOAD_NS, key), "wayback"), "url")) # ""

\* C32: after a returned apply_stage_result(archive, success, has_document)
\* the stored state is ARCHIVE_UPLOADED_WITH_WAYBACK_URL if has_wayback_url
\* was given as true, or was not given and the stored wayback url is not
\* empty, and ARCHIVE_UPLOADED_WITHOUT_WAYBACK_URL otherwise.
C32_ArchiveStateFollowsWaybackUrl ==
    ArchivedDocument
    => StoredState(lastOp.key)
         = (IF (IF lastOp.has_wayback_url = <<>> THEN HasStoredWaybackUrl(lastOp.key)
                ELSE lastOp.has_wayback_url[1])
            THEN STATE_ARCHIVE_UPLOADED_WITH_WAYBACK_URL
            ELSE STATE_ARCHIVE_UPLOADED_WITHOUT_WAYBACK_URL)

(***************************************************************************)
(* The except clauses of the stage worker loops (SpecWorker).              *)
(***************************************************************************)
\* the step is one iteration of a worker loop
Iteration == job.status = "running" /\ job' # job

\* the run goes on with the next selected code, and returns after the last
NextCode ==
    /\ job'.pos = job.pos + 1
    /\ ~job'.report.stopped_early
    /\ job'.status = (IF job.pos < Len(job.codes) THEN "running" ELSE "returned")

\* C33: an iteration of the download, wayback or archive worker loop in
\* which apply_stage_result raises RetryLimitExceededError counts the record
\* as skipped, counts no failure and no service failure, leaves the count
\* of consecutive service failures as it was, and the loop goes on with the
\* next selected record.
C33_RetryLimitIsSkipped ==
    [][Iteration /\ job'.last.raised = RetryLimitExceededError
       => /\ job'.report.skipped = job.report.skipped + 1
          /\ job'.report.failed = job.report.failed
          /\ job'.report.service_failures = job.report.service_failures
          /\ job'.report.success = job.report.success
          /\ job'.consecutive_service_failures = job.consecutive_service_failures
          /\ job'.last.applies = 1
          /\ NextCode]_vars

\* C33 witness: a record with no attempt left was skipped right after a
\* service failure, and the count of consecutive service failures is still 1
C33_Witness ==
    /\ job.last.raised = RetryLimitExceededError
    /\ job.report.skipped = 1
    /\ job.report.service_failures = 1
    /\ job.consecutive_service_failures = 1
    /\ ~job.report.stopped_early

\* the try block of the last iteration raised a store error other than
\* RetryLimitExceededError
OtherStoreError ==
    /\ job.stage \in STAGE_NAMES
    /\ job.last.raised \notin {NoError, RetryLimitExceededError, RemoteException}

\* C34: a store error other than RetryLimitExceededError raised while a
\* worker loop processes a record leaves the run: the run ends with the
\* error, no later record of the batch is processed, and no further
\* apply_stage_result call is made for the failing record.
C34_OtherErrorsStopTheJob ==
    OtherStoreError
    => /\ job.status = "raised"
       /\ job.last.applies = 1

(***************************************************************************)
(* The early stop of a stage worker run (SpecWorker).                      *)
(***************************************************************************)
\* the last iteration ended in "except Exception"
UnexpectedException(j) ==
    /\ j.last.raised \notin {NoError, RetryLimitExceededError}
    /\ ~(j.stage = STAGE_DOWNLOAD /\ j.last.raised = InvalidTransitionError)

\* apply_stage_result recorded a failure the worker took for a service failure
ServiceFailure(j) == j.last.raised = NoError /\ j.last.outcome = "service_failure"

\* apply_stage_result recorded a success, or a failure that is not a service failure
SuccessOrPlainFailure(j) ==
    /\ j.last.raised = NoError
    /\ j.last.outcome \in {"ok", "exists", "no_document", "failed", "file_missing"}

\* C35: a stage worker run is stopped early exactly when the count of
\* consecutive service failures has reached the configured limit. Every
\* iteration that ends in a service failure or an unexpected exception adds
\* one to the count, every iteration that ends in a success or in a failure
\* that is not a service failure sets it to 0; a run that is stopped early
\* has returned, processes no further record, and reports stopped_early.
C35_StopsAtServiceFailureLimit ==
    /\ [](job.stage \in STAGE_NAMES
          => (job.report.stopped_early
              <=> job.consecutive_service_failures >= job.service_failure_limit))
    /\ [](job.report.stopped_early => job.status = "returned")
    /\ [][job.status = "returned" => job' = job]_vars
    /\ [][Iteration
          => /\ (ServiceFailure(job') \/ UnexpectedException(job'))
                => job'.consecutive_service_failures
                     = job.consecutive_service_failures + 1
             /\ SuccessOrPlainFailure(job')
                => job'.consecutive_service_failures = 0]_vars

\* C35 witness: with a limit of 2, the second service failure in a row
\* stopped the run of two selected codes
C35_Witness ==
    /\ job.report.stopped_early
    /\ job.status = "returned"
    /\ job.service_failure_limit = 2
    /\ job.report.service_failures = 2
    /\ job.report.processed = 2

(***************************************************************************)
(* The retry of a failed download (SpecStage).                             *)
(***************************************************************************)
\* the record is stored as DOWNLOAD_FAILED after one download attempt
FailedOnce(key) ==
    /\ HasRow(UPLOAD_NS, key)
    /\ StoredState(key) = STATE_DOWNLOAD_FAILED
    /\ StoredAttempts(key, STAGE_DOWNLOAD) = 1

\* the call returned and the row of the key is stored with the state
StoredAs(res, key, state) ==
    /\ res.error = NoError
    /\ current_state_of(PipelineRowIn(res.st, key)) = state

\* the table allows the state next_state_for_stage computes from the state
ComputedStateAllowed(state, stage, success) ==
    validate_transition(state,
                        next_state_for_stage(state, stage, success, <<>>, TRUE).state)
        = NoError

\* C36: for a record stored as DOWNLOAD_FAILED with download.attempts = 1,
\* apply_stage_result(download, success) returns and the stored state is
\* DOWNLOAD_SUCCESS afterwards, and the state computed for that outcome is
\* one the table of allowed transitions allows from DOWNLOAD_FAILED.
C36_DownloadRetryRecovers ==
    FailedOnce(StageKey)
    => /\ \A metadata \in StageMetadata(STAGE_DOWNLOAD) :
              StoredAs(apply_stage_result(Store, now, StageKey, STAGE_DOWNLOAD, TRUE,
                                          metadata, "", TRUE, <<>>),
                       StageKey, STATE_DOWNLOAD_SUCCESS)
       /\ ComputedStateAllowed(StoredState(StageKey), STAGE_DOWNLOAD, TRUE)

(***************************************************************************)
(* The ledger validator's rules on a pipeline row (SpecStage).             *)
(***************************************************************************)
\* the status of a stage sub-object of a row
status_of(row, stage) == Get(StageObj(row, stage), "status")

\* validate_ledger.validate_upload_state_consistency: the codes of the
\* issues of severity error it adds for a row
upload_state_errors(row) ==
    IF Get(row, "state") \notin ALLOWED_STATES THEN {"state_invalid"}
    ELSE CASE row["state"] = STATE_FETCHED ->
                IF status_of(row, "archive") = "success"
                THEN {"state_fetched_archive_success"} ELSE {}
           [] row["state"] = STATE_DOWNLOAD_SUCCESS ->
                (IF status_of(row, "download") # "success"
                 THEN {"state_download_success_mismatch"} ELSE {})
                \cup (IF status_of(row, "archive") = "success"
                      THEN {"state_download_success_archive_success"} ELSE {})
           [] row["state"] = STATE_DOWNLOAD_FAILED ->
                (IF status_of(row, "download") # "failed"
                 THEN {"state_download_failed_mismatch"} ELSE {})
                \cup (IF status_of(row, "archive") = "success"
                      THEN {"state_download_failed_archive_success"} ELSE {})
           [] row["state"] = STATE_WAYBACK_UPLOADED ->
                (IF status_of(row, "wayback") # "success"
                 THEN {"state_wayback_uploaded_mismatch"} ELSE {})
                \cup (IF status_of(row, "archive") = "success"
                      THEN {"state_wayback_uploaded_archive_success"} ELSE {})
           [] row["state"] = STATE_WAYBACK_UPLOAD_FAILED ->
                (IF status_of(row, "wayback") # "failed"
                 THEN {"state_wayback_failed_mismatch"} ELSE {})
                \cup (IF status_of(row, "archive") = "success"
                      THEN {"state_wayback_failed_archive_success"} ELSE {})
           [] row["state"] = STATE_ARCHIVE_UPLOADED_WITH_WAYBACK_URL ->
                (IF status_of(row, "archive") # "success"
                 THEN {"state_archive_with_wayback_archive_status"} ELSE {})
                \cup (IF normalize_text(Get(StageObj(row, "wayback"), "url")) = ""
                      THEN {"state_archive_with_wayback_missing_url"} ELSE {})
           [] row["state"] = STATE_ARCHIVE_UPLOADED_WITHOUT_WAYBACK_URL ->
                IF status_of(row, "archive") # "success"
                THEN {"state_archive_without_wayback_archive_status"} ELSE {}
           [] row["state"] = STATE_ARCHIVE_UPLOADED_WITHOUT_DOCUMENT ->
                IF status_of(row, "archive") # "success"
                THEN {"state_archive_without_document_archive_status"} ELSE {}

\* a call that returned left a pipeline row the validator has no error for
LeftConsistent(res, key) ==
    res.error = NoError => upload_state_errors(PipelineRowIn(res.st, key)) = {}

\* C37: a returned apply_stage_result call on a record whose pipeline row
\* satisfies the validator's state/status rules (as the row of a freshly
\* inserted record does) leaves a stored pipeline row that satisfies them:
\* FETCHED without archive.status = success, DOWNLOAD_SUCCESS with
\* download.status = success, DOWNLOAD_FAILED with download.status = failed,
\* WAYBACK_UPLOADED with wayback.status = success, WAYBACK_UPLOAD_FAILED
\* with wayback.status = failed, every ARCHIVE_UPLOADED state with
\* archive.status = success, and archive.status = success in no other state.
C37_StageResultsKeepValidatorRules ==
    upload_state_errors(PipelineRow(StageKey)) = {}
    => \A stage \in STAGE_NAMES, success \in BOOLEAN :
           \A metadata \in StageMetadata(stage), flags \in StageFlags(stage) :
               LeftConsistent(apply_stage_result(Store, now, StageKey, stage, success,
                                                 metadata, "", flags[1], flags[2]),
                              StageKey)

(***************************************************************************)
(* A store opened with a partition filter (SpecIdentity).                  *)
(***************************************************************************)
\* the partitions a store is restricted to
FilterPartitions == {"2024", "unknown"}

\* the records inserted or upserted through the restricted store
FilterRecords ==
    {[record_key |-> IdentityKey, gr_date |-> "2024-03-01"],
     [record_key |-> IdentityKey, gr_date |-> ""]}

\* after the call the files hold at most one identity row of the key
OneIdentityRow(res, key) == RowCount(res.st, URL_NS, key) <= 1

\* insert and upsert through an opened store leave one identity row per key
KeepsKeyUnique(opened, record) ==
    opened.error = NoError
    => /\ OneIdentityRow(insert(opened.st, now, record, "daily", ""), patch_key(record))
       /\ OneIdentityRow(upsert(opened.st, now, record, "daily", ""), patch_key(record))

\* C39: when the files hold one identity row per key, an insert or upsert
\* through a store opened with a partition filter leaves at most one
\* identity row of the key in the files, also when the key has its row in a
\* partition outside the filter: the call raises DuplicateUniqueCodeError
\* or updates that row.
C39_FilteredStoreKeepsKeysUnique ==
    RowCount(Store, URL_NS, IdentityKey) <= 1
    => \A partition \in FilterPartitions, record \in FilterRecords :
           KeepsKeyUnique(open_store(disk, <<{partition}>>), record)

(***************************************************************************)
(* The end of the download -> upload -> pdf-info workflow (SpecWorker).    *)
(***************************************************************************)
\* C38: the workflow loop ends, for every ledger and without the runtime
\* limit, by returning with a stop reason.
C38_WorkflowReturnsStopReason ==
    job.stage = "workflow" /\ job.status # "running"
    => job.status = "returned" /\ job.last.outcome # ""

====
